---- MODULE Spec2Model ----
(***************************************************************************)
(* Map-Reduce tweet analytics: the keyword sentiment analyzer, the three   *)
(* local classifiers and their map driver, and the streaming mapper and    *)
(* reducer (src/analyse-sentiment.py, src/hastag-tendance.py,              *)
(* src/distribution-geo.py, src/mapper.py, src/reducer.py).                *)
(*                                                                         *)
(* Python strings are modelled as sequences of one-character strings, so   *)
(* that lower(), strip(), startswith(), the tokenizing regular expression  *)
(* and the date formats are computed character by character.  Floating     *)
(* point scores are modelled as exact rationals num/den.                   *)
(***************************************************************************)
EXTENDS Integers, Sequences, FiniteSets, TLC

(***************************************************************************)
(* Bounds of the model.                                                    *)
(***************************************************************************)
\* longest text enumerated character by character
MaxChars == 3
\* longest text enumerated word by word
MaxWords == 3

(***************************************************************************)
(* Characters and strings.                                                 *)
(***************************************************************************)
UpperChars == <<"A","B","C","D","E","F","G","H","I","J","K","L","M","N","O","P","Q","R","S","T","U","V","W","X","Y","Z">>
LowerChars == <<"a","b","c","d","e","f","g","h","i","j","k","l","m","n","o","p","q","r","s","t","u","v","w","x","y","z">>
DigitChars == <<"0","1","2","3","4","5","6","7","8","9">>

\* the sequences over S of length at most n
SeqsUpTo(S, n) == UNION { [1..k -> S] : k \in 0..n }

IsUpper(c) == \E i \in 1..Len(UpperChars) : UpperChars[i] = c
IsLower(c) == \E i \in 1..Len(LowerChars) : LowerChars[i] = c
IsDigit(c) == \E i \in 1..Len(DigitChars) : DigitChars[i] = c

\* str.lower() on one character, then on a string
LowerChar(c) ==
    IF IsUpper(c)
    THEN LowerChars[CHOOSE i \in 1..Len(UpperChars) : UpperChars[i] = c]
    ELSE c

Lower(s) == [i \in 1..Len(s) |-> LowerChar(s[i])]

\* \w of the re module: letters, digits and the underscore
IsWordChar(c) == IsUpper(c) \/ IsLower(c) \/ IsDigit(c) \/ c = "_"

\* the characters str.strip() removes
IsSpace(c) == c \in {" ", "\t", "\n", "\r"}

\* s1 joined to s2 with a separator, as str.join does for two pieces
JoinWith(sep, pieces) ==
    LET RECURSIVE J(_)
        J(i) == IF i > Len(pieces) THEN <<>>
                ELSE IF i = Len(pieces) THEN pieces[i]
                ELSE pieces[i] \o sep \o J(i + 1)
    IN J(1)

(***************************************************************************)
(* SimpleSentimentAnalyzer (src/analyse-sentiment.py).                     *)
(***************************************************************************)
positive_words ==
    { <<"g","o","o","d">>, <<"g","r","e","a","t">>,
      <<"e","x","c","e","l","l","e","n","t">>, <<"a","m","a","z","i","n","g">>,
      <<"a","w","e","s","o","m","e">>, <<"f","a","n","t","a","s","t","i","c">>,
      <<"w","o","n","d","e","r","f","u","l">>, <<"b","r","i","l","l","i","a","n","t">>,
      <<"p","e","r","f","e","c","t">>, <<"l","o","v","e">>,
      <<"b","e","s","t">>, <<"i","n","c","r","e","d","i","b","l","e">>,
      <<"o","u","t","s","t","a","n","d","i","n","g">>, <<"r","e","m","a","r","k","a","b","l","e">>,
      <<"s","u","p","e","r","b">>, <<"m","a","r","v","e","l","o","u","s">>,
      <<"e","x","c","i","t","i","n","g">>, <<"r","e","v","o","l","u","t","i","o","n","i","z","i","n","g">>,
      <<"s","u","c","c","e","s","s","f","u","l">>, <<"f","u","t","u","r","e">> }

negative_words ==
    { <<"b","a","d">>, <<"t","e","r","r","i","b","l","e">>,
      <<"a","w","f","u","l">>, <<"h","o","r","r","i","b","l","e">>,
      <<"w","o","r","s","t">>, <<"h","a","t","e">>,
      <<"d","i","s","g","u","s","t","i","n","g">>, <<"p","a","t","h","e","t","i","c">>,
      <<"u","s","e","l","e","s","s">>, <<"b","o","r","i","n","g">>,
      <<"d","i","s","a","p","p","o","i","n","t","i","n","g">>, <<"f","r","u","s","t","r","a","t","i","n","g">>,
      <<"a","n","n","o","y","i","n","g">>, <<"b","r","o","k","e","n">>,
      <<"f","a","i","l","e","d">>, <<"e","r","r","o","r">>,
      <<"p","r","o","b","l","e","m">>, <<"i","s","s","u","e">> }

intensifiers ==
    { <<"v","e","r","y">>, <<"e","x","t","r","e","m","e","l","y">>,
      <<"r","e","a","l","l","y">>, <<"t","o","t","a","l","l","y">>,
      <<"c","o","m","p","l","e","t","e","l","y">>, <<"a","b","s","o","l","u","t","e","l","y">>,
      <<"q","u","i","t","e">>, <<"r","a","t","h","e","r">>,
      <<"p","r","e","t","t","y">>, <<"s","o">>,
      <<"t","o","o">> }

\* re.findall(r'\b\w+\b', text): the maximal runs of word characters
findall_words(s) ==
    LET RECURSIVE W(_, _)
        W(i, cur) ==
            IF i > Len(s)
            THEN IF cur = <<>> THEN <<>> ELSE <<cur>>
            ELSE IF IsWordChar(s[i])
                 THEN W(i + 1, Append(cur, s[i]))
                 ELSE (IF cur = <<>> THEN <<>> ELSE <<cur>>) \o W(i + 1, <<>>)
    IN W(1, <<>>)

\* Scores are counted in halves: a plain sentiment word weighs 1.0 = 2 halves,
\* an intensified one 1.5 = 3 halves.
PlainWeight == 2
IntensifiedWeight == 3

\* a weight of 1.5 after an intensifier anywhere before the word
intensifier_anywhere(words, i) ==
    IF \E j \in 1..(i - 1) : words[j] \in intensifiers
    THEN IntensifiedWeight ELSE PlainWeight

\* the weight of words[i]: 1.5 when the previous token is an intensifier
intensifier(words, i) ==
    IF i > 1 /\ words[i - 1] \in intensifiers THEN IntensifiedWeight ELSE PlainWeight

\* positive_score after the loop over the tokens, in halves
positive_score(words) ==
    LET RECURSIVE P(_)
        P(i) == IF i > Len(words) THEN 0
                ELSE (IF words[i] \in positive_words THEN intensifier(words, i) ELSE 0)
                     + P(i + 1)
    IN P(1)

\* negative_score after the loop (the elif: only when the word is not positive)
negative_score(words) ==
    LET RECURSIVE N(_)
        N(i) == IF i > Len(words) THEN 0
                ELSE (IF words[i] \notin positive_words /\ words[i] \in negative_words
                      THEN intensifier(words, i) ELSE 0)
                     + N(i + 1)
    IN N(1)

\* a float result num/den, or an exception leaving the function
Float(n, d) == [raised |-> FALSE, num |-> n, den |-> d]
Raised == [raised |-> TRUE, num |-> 0, den |-> 1]

\* max(-1.0, min(1.0, n/d)) for d > 0
clamp(n, d) ==
    IF n > d THEN Float(d, d)
    ELSE IF n < -d THEN Float(-d, d)
    ELSE Float(n, d)

\* the same analyzer without the zero-token guard: the division raises
analyze_sentiment_unguarded(text) ==
    LET words == findall_words(Lower(text))
        total_words == Len(words)
    IN IF total_words = 0 THEN Raised
       ELSE clamp(positive_score(words) - negative_score(words), 2 * total_words)

\* analyze_sentiment(text): positive/total - negative/total clamped to [-1, 1]
analyze_sentiment(text) ==
    IF text = <<>> THEN Float(0, 1)
    ELSE LET words == findall_words(Lower(text))
             total_words == Len(words)
         IN IF total_words = 0 THEN Float(0, 1)
            ELSE clamp(positive_score(words) - negative_score(words),
                       2 * total_words)

(***************************************************************************)
(* JSON values as json.load returns them.  A field a dict does not have    *)
(* is Missing; the other values are None, str, int, list and dict.         *)
(***************************************************************************)
Missing == [t |-> "missing"]
Null == [t |-> "null"]
Str(s) == [t |-> "str", s |-> s]
Num(n) == [t |-> "num", n |-> n]
List(xs) == [t |-> "list", items |-> xs]

\* dict.get(key, default) where v is the dict's entry for the key
Get(v, default) == IF v.t = "missing" THEN default ELSE v

\* Python truthiness of a value (bool(v)); a dict is truthy when it has a key
Truthy(v) ==
    CASE v.t = "missing" -> FALSE
      [] v.t = "null" -> FALSE
      [] v.t = "str" -> v.s # <<>>
      [] v.t = "num" -> v.n # 0
      [] v.t = "list" -> v.items # <<>>
      [] v.t = "loc" -> v.city.t # "missing" \/ v.coordinates.t # "missing"
      [] OTHER -> TRUE

(***************************************************************************)
(* Numbers in decimal notation.                                            *)
(***************************************************************************)
DigitVal(c) == (CHOOSE i \in 1..Len(DigitChars) : DigitChars[i] = c) - 1

AllDigits(p) == \A i \in 1..Len(p) : IsDigit(p[i])

\* int(p) for a sequence of digits
NumVal(p) ==
    LET RECURSIVE V(_)
        V(k) == IF k = 0 THEN 0 ELSE 10 * V(k - 1) + DigitVal(p[k])
    IN V(Len(p))

\* str(n) for n >= 0: no padding
Decimal(n) ==
    LET RECURSIVE D(_)
        D(m) == IF m < 10 THEN <<DigitChars[m + 1]>>
                ELSE Append(D(m \div 10), DigitChars[(m % 10) + 1])
    IN D(n)

\* the format specification :02d
Pad2(n) == IF n < 10 THEN <<"0">> \o Decimal(n) ELSE Decimal(n)

\* s.split(sep) for a set of separator characters: empty pieces are kept
Split(s, seps) ==
    LET RECURSIVE P(_, _)
        P(i, cur) ==
            IF i > Len(s) THEN <<cur>>
            ELSE IF s[i] \in seps THEN <<cur>> \o P(i + 1, <<>>)
            ELSE P(i + 1, Append(cur, s[i]))
    IN P(1, <<>>)

\* the pieces a format with \s+ separators sees: the non-empty pieces when
\* the string neither starts nor ends with white space, nothing otherwise
SpaceFields(s) ==
    LET ps == Split(s, {" ", "\t", "\n", "\r"})
    IN IF ps[1] = <<>> \/ ps[Len(ps)] = <<>> THEN <<>>
       ELSE SelectSeq(ps, LAMBDA p : p # <<>>)

(***************************************************************************)
(* datetime: the three timestamp formats the classifiers parse.            *)
(* A parse returns [ok, year, month, day]; ok = FALSE is the ValueError.   *)
(***************************************************************************)
NoDate == [ok |-> FALSE, year |-> 0, month |-> 0, day |-> 0]

IsLeap(y) == (y % 4 = 0 /\ y % 100 # 0) \/ y % 400 = 0

DaysInMonth(y, m) ==
    IF m = 2 THEN (IF IsLeap(y) THEN 29 ELSE 28)
    ELSE IF m \in {4, 6, 9, 11} THEN 30 ELSE 31

\* datetime(year, month, day, ...) of checked fields: the range checks
MkDate(y, m, d) ==
    IF y >= 1 /\ y <= 9999 /\ m >= 1 /\ m <= 12 /\ d >= 1 /\ d <= DaysInMonth(y, m)
    THEN [ok |-> TRUE, year |-> y, month |-> m, day |-> d]
    ELSE NoDate

\* a numeric directive of strptime: 1 or 2 digits (exactly `width` for %Y)
\* with a value in lo..hi
NumField(p, minLen, maxLen, lo, hi) ==
    /\ Len(p) >= minLen /\ Len(p) <= maxLen
    /\ AllDigits(p)
    /\ NumVal(p) >= lo /\ NumVal(p) <= hi

\* %H:%M:%S of strptime (seconds 60 and 61 match the directive but are
\* rejected by the datetime constructor)
TimeOK(p) ==
    LET hms == Split(p, {":"})
    IN /\ Len(hms) = 3
       /\ NumField(hms[1], 1, 2, 0, 23)
       /\ NumField(hms[2], 1, 2, 0, 59)
       /\ NumField(hms[3], 1, 2, 0, 59)

\* datetime.strptime(s, '%Y-%m-%d %H:%M:%S') for strings whose day field is
\* not written with a leading blank
strptime_ymd_hms(s) ==
    LET fs == SpaceFields(s)
        ymd == IF Len(fs) = 2 THEN Split(fs[1], {"-"}) ELSE <<>>
    IN IF /\ Len(fs) = 2
          /\ Len(ymd) = 3
          /\ NumField(ymd[1], 4, 4, 0, 9999)
          /\ NumField(ymd[2], 1, 2, 1, 12)
          /\ NumField(ymd[3], 1, 2, 1, 31)
          /\ TimeOK(fs[2])
       THEN MkDate(NumVal(ymd[1]), NumVal(ymd[2]), NumVal(ymd[3]))
       ELSE NoDate

WeekdayNames ==
    { <<"m","o","n">>, <<"t","u","e">>, <<"w","e","d">>, <<"t","h","u">>,
      <<"f","r","i">>, <<"s","a","t">>, <<"s","u","n">> }

MonthNames ==
    << <<"j","a","n">>, <<"f","e","b">>, <<"m","a","r">>, <<"a","p","r">>,
       <<"m","a","y">>, <<"j","u","n">>, <<"j","u","l">>, <<"a","u","g">>,
       <<"s","e","p">>, <<"o","c","t">>, <<"n","o","v">>, <<"d","e","c">> >>

\* %z of strptime: Z, or a sign followed by HHMM or HH:MM
ZoneOK(p) ==
    \/ p = <<"Z">>
    \/ /\ Len(p) \in {5, 6}
       /\ p[1] \in {"+", "-"}
       /\ LET d == SelectSeq(Tail(p), LAMBDA c : c # ":")
          IN /\ Len(d) = 4
             /\ AllDigits(d)
             /\ (Len(p) = 6 => p[4] = ":")
             /\ NumVal(SubSeq(d, 3, 4)) <= 59

\* datetime.strptime(s, '%a %b %d %H:%M:%S %z %Y'): names match in any case
strptime_twitter(s) ==
    LET fs == SpaceFields(s)
    IN IF /\ Len(fs) = 6
          /\ Lower(fs[1]) \in WeekdayNames
          /\ \E m \in 1..12 : MonthNames[m] = Lower(fs[2])
          /\ NumField(fs[3], 1, 2, 1, 31)
          /\ TimeOK(fs[4])
          /\ ZoneOK(fs[5])
          /\ NumField(fs[6], 4, 4, 0, 9999)
       THEN MkDate(NumVal(fs[6]),
                   CHOOSE m \in 1..12 : MonthNames[m] = Lower(fs[2]),
                   NumVal(fs[3]))
       ELSE NoDate

\* s.replace('Z', '+00:00')
ReplaceZ(s) ==
    LET RECURSIVE R(_)
        R(i) == IF i > Len(s) THEN <<>>
                ELSE (IF s[i] = "Z" THEN <<"+","0","0",":","0","0">> ELSE <<s[i]>>)
                     \o R(i + 1)
    IN R(1)

\* the time of an ISO string: HH[:MM[:SS[.f+]]]
IsoTimeOK(p) ==
    LET whole == Split(p, {".", ","})
        hms == Split(whole[1], {":"})
    IN /\ Len(whole) <= 2
       /\ (Len(whole) = 2 => Len(hms) = 3 /\ AllDigits(whole[2]))
       /\ Len(hms) \in 1..3
       /\ NumField(hms[1], 2, 2, 0, 23)
       /\ (Len(hms) >= 2 => NumField(hms[2], 2, 2, 0, 59))
       /\ (Len(hms) = 3 => NumField(hms[3], 2, 2, 0, 59))

\* the UTC offset of an ISO string: HH, HH:MM or HHMM, under 24 hours
IsoZoneOK(p) ==
    LET d == SelectSeq(p, LAMBDA c : c # ":")
    IN /\ Len(p) \in {2, 4, 5}
       /\ Len(d) \in {2, 4}
       /\ AllDigits(d)
       /\ (Len(p) = 5 => p[3] = ":")
       /\ NumVal(SubSeq(d, 1, 2)) <= 23

\* datetime.fromisoformat(s) of Python 3.11 for the extended format
\* YYYY-MM-DD, one separator character, a time and an optional UTC offset
\* (the basic format YYYYMMDD and week dates are not among the inputs)
fromisoformat(s) ==
    LET date == IF Len(s) >= 10 THEN SubSeq(s, 1, 10) ELSE <<>>
        rest == IF Len(s) >= 12 THEN SubSeq(s, 12, Len(s)) ELSE <<>>
        tz == Split(rest, {"+", "-"})
    IN IF /\ Len(s) >= 12
          /\ date[5] = "-" /\ date[8] = "-"
          /\ AllDigits(SubSeq(date, 1, 4))
          /\ AllDigits(SubSeq(date, 6, 7))
          /\ AllDigits(SubSeq(date, 9, 10))
          /\ Len(tz) <= 2
          /\ IsoTimeOK(tz[1])
          /\ (Len(tz) = 2 => IsoZoneOK(tz[2]))
       THEN MkDate(NumVal(SubSeq(date, 1, 4)), NumVal(SubSeq(date, 6, 7)),
                   NumVal(SubSeq(date, 9, 10)))
       ELSE NoDate

\* f"{dt.year}-{dt.month}": the month written without the :02d padding
month_key_unpadded(dt) == Decimal(dt.year) \o <<"-">> \o Decimal(dt.month)

\* f"{dt.year}-{dt.month:02d}", also dt.strftime('%Y-%m') of the C library:
\* the year is written without zero padding
month_key_of(dt) == Decimal(dt.year) \o <<"-">> \o Pad2(dt.month)

\* f"{dt.year}-{dt.month:02d}-{dt.day}": the day written without the :02d padding
date_key_unpadded(dt) == month_key_of(dt) \o <<"-">> \o Decimal(dt.day)

\* f"{dt.year}-{dt.month:02d}-{dt.day:02d}"
date_key_of(dt) == month_key_of(dt) \o <<"-">> \o Pad2(dt.day)

(***************************************************************************)
(* More str methods.                                                       *)
(***************************************************************************)
UpperChar(c) ==
    IF IsLower(c)
    THEN UpperChars[CHOOSE i \in 1..Len(LowerChars) : LowerChars[i] = c]
    ELSE c

IsLetter(c) == IsUpper(c) \/ IsLower(c)

\* s.strip(): without the leading and trailing white space
strip(s) ==
    LET keep == { i \in 1..Len(s) : ~IsSpace(s[i]) }
    IN IF keep = {} THEN <<>>
       ELSE SubSeq(s, CHOOSE i \in keep : \A j \in keep : i <= j,
                      CHOOSE i \in keep : \A j \in keep : i >= j)

\* s.title(): a letter is upper case after a non-letter, lower case otherwise
title(s) ==
    [i \in 1..Len(s) |->
        IF IsLetter(s[i])
        THEN IF i = 1 \/ ~IsLetter(s[i - 1]) THEN UpperChar(s[i]) ELSE LowerChar(s[i])
        ELSE s[i]]

\* sub in s
Contains(s, sub) ==
    \E i \in 0..(Len(s) - Len(sub)) : SubSeq(s, i + 1, i + Len(sub)) = sub

\* s.replace('#', '')
RemoveHash(s) == SelectSeq(s, LAMBDA c : c # "#")

\* s[:n] + "..." if len(s) > n else s
Preview(s, n) ==
    IF Len(s) > n THEN SubSeq(s, 1, n) \o <<".", ".", ".">> ELSE s

(***************************************************************************)
(* The result of classifying one record: the entries it returns, or an     *)
(* exception that leaves the classifier.                                   *)
(***************************************************************************)
Ret(es) == [raised |-> FALSE, entries |-> es]
Raise == [raised |-> TRUE, entries |-> <<>>]

\* a record is a JSON object (only a dict has .get)
IsObject(tweet) == tweet.t = "tweet"

(***************************************************************************)
(* HashtagMapper (src/hastag-tendance.py).                                 *)
(***************************************************************************)
\* clean_hashtag of the loop body: strip, lower, drop one leading '#'
clean_hashtag(hashtag) ==
    LET c == Lower(strip(hashtag))
    IN IF c # <<>> /\ c[1] = "#" THEN Tail(c) ELSE c

\* the elements a for loop over v visits; a str is iterated by character
Elements(v) ==
    IF v.t = "list" THEN v.items
    ELSE [i \in 1..Len(v.s) |-> Str(<<v.s[i]>>)]

Iterable(v) == v.t \in {"list", "str"}

\* map_hashtags(tweet): one (month, hashtag) entry per non-empty clean hashtag
map_hashtags(tweet) ==
    IF ~IsObject(tweet) THEN Raise
    ELSE
    LET timestamp == Get(tweet.timestamp, Str(<<>>))
        hashtags == Get(tweet.hashtags, List(<<>>))
        dt == IF timestamp.t = "str" THEN strptime_ymd_hms(timestamp.s) ELSE NoDate
        hs == IF Iterable(hashtags) THEN Elements(hashtags) ELSE <<>>
        RECURSIVE Results(_)
        Results(i) ==
            IF i > Len(hs) THEN <<>>
            ELSE LET c == clean_hashtag(hs[i].s)
                 IN (IF c # <<>>
                     THEN << [key |-> month_key_of(dt), hashtag |-> c] >>
                     ELSE <<>>) \o Results(i + 1)
    IN IF ~Truthy(timestamp) \/ ~Truthy(hashtags) THEN Ret(<<>>)
       ELSE IF ~dt.ok THEN Ret(<<>>)
       ELSE IF ~Iterable(hashtags) THEN Ret(<<>>)
       ELSE IF \E i \in 1..Len(hs) : hs[i].t # "str" THEN Ret(<<>>)
       ELSE Ret(Results(1))

(***************************************************************************)
(* SentimentMapper (src/analyse-sentiment.py).                             *)
(***************************************************************************)
\* the same labels with thresholds that include 0.1 and -0.1
get_sentiment_label_inclusive(s) ==
    IF 10 * s.num >= s.den THEN "positive"
    ELSE IF 10 * s.num <= -s.den THEN "negative"
    ELSE "neutral"

\* get_sentiment_label(score): score > 0.1, score < -0.1, or neither
get_sentiment_label(s) ==
    IF 10 * s.num > s.den THEN "positive"
    ELSE IF 10 * s.num < -s.den THEN "negative"
    ELSE "neutral"

PreviewLen == 50

\* map_sentiment(tweet): (date_key, {score, label, text_preview}) or None
map_sentiment(tweet) ==
    IF ~IsObject(tweet) THEN Raise
    ELSE
    LET timestamp == Get(tweet.timestamp, Str(<<>>))
        txt == Get(tweet.tweet_text, Str(<<>>))
        dt == IF timestamp.t = "str" THEN strptime_ymd_hms(timestamp.s) ELSE NoDate
    IN IF ~Truthy(timestamp) \/ ~Truthy(txt) THEN Ret(<<>>)
       ELSE IF ~dt.ok THEN Ret(<<>>)
       ELSE IF txt.t # "str" THEN Ret(<<>>)
       ELSE LET sentiment_score == analyze_sentiment(txt.s)
            IN Ret(<< [key |-> date_key_of(dt),
                       score |-> sentiment_score,
                       label |-> get_sentiment_label(sentiment_score),
                       text_preview |-> Preview(txt.s, PreviewLen)] >>)

(***************************************************************************)
(* GeographicMapper (src/distribution-geo.py).                             *)
(***************************************************************************)
\* self.city_to_country, in the order of the dict: <<city, country>>
city_to_country ==
    << <<<<"p","a","r","i","s">>,
          <<"F","r","a","n","c","e">>>>,
       <<<<"l","o","n","d","o","n">>,
          <<"U","n","i","t","e","d"," ","K","i","n","g","d","o","m">>>>,
       <<<<"n","e","w"," ","y","o","r","k">>,
          <<"U","n","i","t","e","d"," ","S","t","a","t","e","s">>>>,
       <<<<"t","o","k","y","o">>,
          <<"J","a","p","a","n">>>>,
       <<<<"b","e","r","l","i","n">>,
          <<"G","e","r","m","a","n","y">>>>,
       <<<<"m","a","d","r","i","d">>,
          <<"S","p","a","i","n">>>>,
       <<<<"r","o","m","e">>,
          <<"I","t","a","l","y">>>>,
       <<<<"a","m","s","t","e","r","d","a","m">>,
          <<"N","e","t","h","e","r","l","a","n","d","s">>>>,
       <<<<"b","r","u","s","s","e","l","s">>,
          <<"B","e","l","g","i","u","m">>>>,
       <<<<"v","i","e","n","n","a">>,
          <<"A","u","s","t","r","i","a">>>>,
       <<<<"z","u","r","i","c","h">>,
          <<"S","w","i","t","z","e","r","l","a","n","d">>>>,
       <<<<"s","t","o","c","k","h","o","l","m">>,
          <<"S","w","e","d","e","n">>>>,
       <<<<"o","s","l","o">>,
          <<"N","o","r","w","a","y">>>>,
       <<<<"h","e","l","s","i","n","k","i">>,
          <<"F","i","n","l","a","n","d">>>>,
       <<<<"c","o","p","e","n","h","a","g","e","n">>,
          <<"D","e","n","m","a","r","k">>>>,
       <<<<"d","u","b","l","i","n">>,
          <<"I","r","e","l","a","n","d">>>>,
       <<<<"l","i","s","b","o","n">>,
          <<"P","o","r","t","u","g","a","l">>>>,
       <<<<"a","t","h","e","n","s">>,
          <<"G","r","e","e","c","e">>>>,
       <<<<"w","a","r","s","a","w">>,
          <<"P","o","l","a","n","d">>>>,
       <<<<"p","r","a","g","u","e">>,
          <<"C","z","e","c","h"," ","R","e","p","u","b","l","i","c">>>>,
       <<<<"b","u","d","a","p","e","s","t">>,
          <<"H","u","n","g","a","r","y">>>>,
       <<<<"b","u","c","h","a","r","e","s","t">>,
          <<"R","o","m","a","n","i","a">>>>,
       <<<<"s","o","f","i","a">>,
          <<"B","u","l","g","a","r","i","a">>>>,
       <<<<"z","a","g","r","e","b">>,
          <<"C","r","o","a","t","i","a">>>>,
       <<<<"l","j","u","b","l","j","a","n","a">>,
          <<"S","l","o","v","e","n","i","a">>>>,
       <<<<"b","r","a","t","i","s","l","a","v","a">>,
          <<"S","l","o","v","a","k","i","a">>>>,
       <<<<"v","i","l","n","i","u","s">>,
          <<"L","i","t","h","u","a","n","i","a">>>>,
       <<<<"r","i","g","a">>,
          <<"L","a","t","v","i","a">>>>,
       <<<<"t","a","l","l","i","n","n">>,
          <<"E","s","t","o","n","i","a">>>> >>

\* self.tech_themes, in the order of the dict: <<theme, keywords>>
tech_themes ==
    << <<<<"a","i">>,
          << <<"a","i">>,
             <<"a","r","t","i","f","i","c","i","a","l"," ","i","n","t","e","l","l","i","g","e","n","c","e">>,
             <<"m","a","c","h","i","n","e","l","e","a","r","n","i","n","g">>,
             <<"m","l">> >> >>,
       <<<<"b","i","g","d","a","t","a">>,
          << <<"b","i","g","d","a","t","a">>,
             <<"h","a","d","o","o","p">>,
             <<"s","p","a","r","k">>,
             <<"a","n","a","l","y","t","i","c","s">> >> >>,
       <<<<"c","l","o","u","d">>,
          << <<"c","l","o","u","d">>,
             <<"c","l","o","u","d","c","o","m","p","u","t","i","n","g">>,
             <<"a","w","s">>,
             <<"a","z","u","r","e">> >> >>,
       <<<<"b","l","o","c","k","c","h","a","i","n">>,
          << <<"b","l","o","c","k","c","h","a","i","n">>,
             <<"c","r","y","p","t","o">>,
             <<"b","i","t","c","o","i","n">> >> >>,
       <<<<"i","o","t">>,
          << <<"i","o","t">>,
             <<"i","n","t","e","r","n","e","t"," ","o","f"," ","t","h","i","n","g","s">>,
             <<"s","e","n","s","o","r","s">> >> >>,
       <<<<"d","a","t","a","s","c","i","e","n","c","e">>,
          << <<"d","a","t","a","s","c","i","e","n","c","e">>,
             <<"d","a","t","a"," ","s","c","i","e","n","c","e">>,
             <<"a","n","a","l","y","t","i","c","s">> >> >>,
       <<<<"p","r","o","g","r","a","m","m","i","n","g">>,
          << <<"p","y","t","h","o","n">>,
             <<"j","a","v","a">>,
             <<"j","a","v","a","s","c","r","i","p","t">>,
             <<"c","o","d","i","n","g">> >> >>,
       <<<<"m","a","p","r","e","d","u","c","e">>,
          << <<"m","a","p","r","e","d","u","c","e">>,
             <<"d","i","s","t","r","i","b","u","t","e","d"," ","c","o","m","p","u","t","i","n","g">> >> >> >>

Unknown == <<"U","n","k","n","o","w","n">>
unknown == <<"u","n","k","n","o","w","n">>
general == <<"g","e","n","e","r","a","l">>

\* self.city_to_country.get(city, 'Unknown')
country_of(city) ==
    IF \E i \in 1..Len(city_to_country) : city_to_country[i][1] = city
    THEN city_to_country[CHOOSE i \in 1..Len(city_to_country) :
                             city_to_country[i][1] = city][2]
    ELSE Unknown

\* extract_location_info(tweet): [none, raised, info]
extract_location_info(tweet) ==
    LET location == Get(tweet.location, [t |-> "loc", city |-> Missing,
                                         coordinates |-> Missing])
        none == [raised |-> FALSE, none |-> TRUE, info |-> <<>>]
    IN IF ~Truthy(location) \/ location.t # "loc" THEN none
       ELSE LET c == Get(location.city, Str(<<>>))
            IN IF c.t # "str" THEN [raised |-> TRUE, none |-> TRUE, info |-> <<>>]
               ELSE LET city == strip(Lower(c.s))
                    IN IF city = <<>> THEN none
                       ELSE [raised |-> FALSE, none |-> FALSE,
                             info |-> << [city |-> title(city),
                                          country |-> country_of(city),
                                          coordinates |->
                                              Get(location.coordinates, List(<<>>))] >>]

\* extract_themes(tweet) for a str text and a list of str hashtags
themes_of(txt, hs) ==
    LET hashtags == [i \in 1..Len(hs) |-> RemoveHash(Lower(hs[i].s))]
        content == Lower(txt) \o <<" ">> \o JoinWith(<<" ">>, hashtags)
        RECURSIVE Th(_)
        Th(i) ==
            IF i > Len(tech_themes) THEN <<>>
            ELSE (IF \E k \in 1..Len(tech_themes[i][2]) :
                        Contains(content, tech_themes[i][2][k])
                  THEN <<tech_themes[i][1]>> ELSE <<>>) \o Th(i + 1)
    IN IF Th(1) # <<>> THEN Th(1) ELSE <<general>>

\* extract_themes(tweet) raises when the text or a hashtag is not a str
\* or the hashtags cannot be iterated
themes_raise(tweet) ==
    LET txt == Get(tweet.tweet_text, Str(<<>>))
        hashtags == Get(tweet.hashtags, List(<<>>))
    IN \/ txt.t # "str"
       \/ ~Iterable(hashtags)
       \/ \E i \in 1..Len(Elements(hashtags)) : Elements(hashtags)[i].t # "str"

GeoPreviewLen == 100

\* map_geographic_data(tweet): the payload, None, or an exception
map_geographic_data(tweet) ==
    IF ~IsObject(tweet) THEN Raise
    ELSE
    LET location_info == extract_location_info(tweet)
        timestamp == Get(tweet.timestamp, Str(<<>>))
        dt == IF timestamp.t = "str" THEN strptime_ymd_hms(timestamp.s) ELSE NoDate
        txt == Get(tweet.tweet_text, Str(<<>>))
    IN IF location_info.raised THEN Raise
       ELSE IF location_info.none THEN Ret(<<>>)
       ELSE IF themes_raise(tweet) THEN Raise
       ELSE Ret(<< [location |-> location_info.info[1],
                    themes |-> themes_of(txt.s, Elements(Get(tweet.hashtags, List(<<>>)))),
                    month |-> IF dt.ok THEN month_key_of(dt) ELSE unknown,
                    tweet_text |-> Preview(txt.s, GeoPreviewLen)] >>)

(***************************************************************************)
(* collections.Counter: a sequence of <<key, count>> pairs in the order    *)
(* in which the keys were first counted (a dict keeps insertion order).    *)
(***************************************************************************)
HasKey(c, key) == \E i \in 1..Len(c) : c[i][1] = key

IndexOf(c, key) == CHOOSE i \in 1..Len(c) : c[i][1] = key

\* the value of the key in a dict kept as a sequence of pairs
ValueAt(dict, key) == dict[IndexOf(dict, key)][2]

\* c[key] += n
CounterAdd(c, key, n) ==
    IF HasKey(c, key)
    THEN [c EXCEPT ![IndexOf(c, key)] = <<key, @[2] + n>>]
    ELSE Append(c, <<key, n>>)

\* Counter(xs)
CounterOf(xs) ==
    LET RECURSIVE C(_)
        C(k) == IF k = 0 THEN <<>> ELSE CounterAdd(C(k - 1), xs[k], 1)
    IN C(Len(xs))

\* the same ranking with equal counts in the reverse of their first-counted
\* order
SortByCountDesc_unstable(c) ==
    LET Insert(r, e) ==
            LET p == Cardinality({ i \in 1..Len(r) : r[i][2] > e[2] })
            IN SubSeq(r, 1, p) \o <<e>> \o SubSeq(r, p + 1, Len(r))
        RECURSIVE S(_)
        S(k) == IF k = 0 THEN <<>> ELSE Insert(S(k - 1), c[k])
    IN S(Len(c))

\* sorted(c.items(), key=count, reverse=True): stable, so equal counts keep
\* their first-counted order
SortByCountDesc(c) ==
    LET Insert(r, e) ==
            LET p == Cardinality({ i \in 1..Len(r) : r[i][2] >= e[2] })
            IN SubSeq(r, 1, p) \o <<e>> \o SubSeq(r, p + 1, Len(r))
        RECURSIVE S(_)
        S(k) == IF k = 0 THEN <<>> ELSE Insert(S(k - 1), c[k])
    IN S(Len(c))

\* the first n pairs as counted, without ranking them
most_common_unsorted(c, n) ==
    IF n < Len(c) THEN SubSeq(c, 1, n) ELSE c

\* c.most_common(n): heapq.nlargest(n, ...) is sorted(...)[:n]
most_common(c, n) ==
    LET s == SortByCountDesc(c)
    IN IF n < Len(s) THEN SubSeq(s, 1, n) ELSE s

\* only the first item of the ranking
most_common_first(c) == most_common(c, 1)

\* c.most_common()
most_common_all(c) == SortByCountDesc(c)

(***************************************************************************)
(* Python floats where a comparison depends on their rounding: IEEE 754    *)
(* binary64 values m * 2^q with m a natural number of 53 bits, kept as the *)
(* sequence of its bits, most significant first. Every operation computes  *)
(* the exact result and rounds it to nearest, ties to even, as the         *)
(* hardware does.                                                          *)
(***************************************************************************)
Zeros(n) == [i \in 1..n |-> 0]

\* the bits without leading zeros
BitsTrim(a) ==
    IF \A i \in 1..Len(a) : a[i] = 0 THEN <<>>
    ELSE SubSeq(a, CHOOSE i \in 1..Len(a) : a[i] = 1 /\ \A j \in 1..(i - 1) : a[j] = 0,
                Len(a))

\* the bits of a natural number
RECURSIVE IntBits(_)
IntBits(n) == IF n = 0 THEN <<>> ELSE Append(IntBits(n \div 2), n % 2)

\* a + b on bits: position i receives a carry when a lower position
\* generates one and the positions between pass it on
BitsAdd(a, b) ==
    LET n == IF Len(a) > Len(b) THEN Len(a) ELSE Len(b)
        A == Zeros(n - Len(a)) \o a
        B == Zeros(n - Len(b)) \o b
        Carry(i) == \E j \in (i + 1)..n :
                       /\ A[j] + B[j] = 2
                       /\ \A k \in (i + 1)..(j - 1) : A[k] + B[k] = 1
        bits == [i \in 1..n |-> (A[i] + B[i] + (IF Carry(i) THEN 1 ELSE 0)) % 2]
    IN IF Carry(0) THEN <<1>> \o bits ELSE bits

\* a - b on bits, for a >= b: position i lends when a lower position
\* borrows and the positions between pass it on
BitsSub(a, b) ==
    LET n == Len(a)
        B == Zeros(n - Len(b)) \o b
        Borrow(i) == \E j \in (i + 1)..n :
                        /\ a[j] < B[j]
                        /\ \A k \in (i + 1)..(j - 1) : a[k] = B[k]
    IN BitsTrim([i \in 1..n |-> (2 + a[i] - B[i] - (IF Borrow(i) THEN 1 ELSE 0)) % 2])

\* a > b on bits without leading zeros
BitsGreater(a, b) ==
    \/ Len(a) > Len(b)
    \/ /\ Len(a) = Len(b)
       /\ \E i \in 1..Len(a) :
             /\ a[i] > b[i]
             /\ \A j \in 1..(i - 1) : a[j] = b[j]

FloatZero == [m |-> <<>>, q |-> 0]

\* the float nearest to bits * 2^q, ties to even
RoundBits(bits, q) ==
    LET L == Len(bits) IN
    IF L = 0 THEN FloatZero
    ELSE IF L <= 53 THEN [m |-> bits \o Zeros(53 - L), q |-> q - (53 - L)]
    ELSE LET head == SubSeq(bits, 1, 53)
             half == bits[54] = 1
             sticky == \E i \in 55..L : bits[i] = 1
             up == half /\ (sticky \/ head[53] = 1)
             m0 == IF up THEN BitsAdd(head, <<1>>) ELSE head
         IN IF Len(m0) = 54 THEN [m |-> SubSeq(m0, 1, 53), q |-> q + (L - 53) + 1]
            ELSE [m |-> m0, q |-> q + (L - 53)]

\* the bits of a natural number below 256
Bits8(n) == [i \in 1..8 |-> (n \div (2 ^ (8 - i))) % 2]

\* a / b for integers a >= 0 and 0 < b < 2^23: the correctly rounded
\* quotient, from the integer part, 72 bits of the fraction taken eight at a
\* time, and a last bit for a remainder that is left
float_div(a, b) ==
    LET RECURSIVE Frac(_, _)
        Frac(r, k) == IF k = 0 THEN (IF r # 0 THEN <<1>> ELSE <<0>>)
                      ELSE Bits8((256 * r) \div b) \o Frac((256 * r) % b, k - 1)
    IN RoundBits(BitsTrim(IntBits(a \div b) \o Frac(a % b, 9)), -73)

\* x * 1.5
float_times_3_2(x) ==
    IF x.m = <<>> THEN FloatZero
    ELSE RoundBits(BitsAdd(x.m \o <<0>>, x.m), x.q - 1)

\* the bits of x and y over a common unit
Aligned(x, y) ==
    LET q == IF x.q < y.q THEN x.q ELSE y.q
    IN [a |-> BitsTrim(x.m \o Zeros(x.q - q)), b |-> BitsTrim(y.m \o Zeros(y.q - q)),
        q |-> q]

\* x > y for floats that are not negative
float_gt(x, y) == LET al == Aligned(x, y) IN BitsGreater(al.a, al.b)

\* abs(x - y) for floats of the same sign, x + y for floats of opposite signs
float_abs_diff(x, y, same_sign) ==
    LET al == Aligned(x, y)
    IN IF ~same_sign THEN RoundBits(BitsAdd(al.a, al.b), al.q)
       ELSE IF BitsGreater(al.a, al.b) THEN RoundBits(BitsSub(al.a, al.b), al.q)
       ELSE RoundBits(BitsSub(al.b, al.a), al.q)

(***************************************************************************)
(* The local reducers.  A dict result is a sequence of <<key, value>>      *)
(* pairs in insertion order.                                               *)
(***************************************************************************)
\* the same grouping with a new group for every entry
GroupBy_unmerged(keys, vals) == [k \in 1..Len(keys) |-> <<keys[k], <<vals[k]>> >>]

\* defaultdict(list) filled by d[keys[k]].append(vals[k]) over the entries
GroupBy(keys, vals) ==
    LET Add(g, k) ==
            IF HasKey(g, keys[k])
            THEN [g EXCEPT ![IndexOf(g, keys[k])] = <<@[1], Append(@[2], vals[k])>>]
            ELSE Append(g, <<keys[k], <<vals[k]>> >>)
        RECURSIVE G(_)
        G(k) == IF k = 0 THEN <<>> ELSE Add(G(k - 1), k)
    IN G(Len(keys))

TopHashtags == 10

\* reduce_hashtags(mapped_data): month -> the 10 most common hashtags
reduce_hashtags(mapped_data) ==
    LET hashtags_by_month ==
            GroupBy([k \in 1..Len(mapped_data) |-> mapped_data[k].key],
                    [k \in 1..Len(mapped_data) |-> mapped_data[k].hashtag])
    IN [i \in 1..Len(hashtags_by_month) |->
           << hashtags_by_month[i][1],
              most_common(CounterOf(hashtags_by_month[i][2]), TopHashtags) >>]

\* labels.count(label)
CountLabel(sentiments, label) ==
    Cardinality({ i \in 1..Len(sentiments) : sentiments[i].label = label })

\* the integer nearest to num / den for den > 0, a tie going to the even one
RoundHalfEven(num, den) ==
    LET q == num \div den
        r == num - q * den
    IN IF 2 * r < den THEN q
       ELSE IF 2 * r > den THEN q + 1
       ELSE IF q % 2 = 0 THEN q ELSE q + 1

\* round(num / den, digits) as a fraction over 10^digits.  The quotient is
\* taken exactly: the float quotient rounds the same way unless it lies
\* within a float rounding error of a tie
round(num, den, digits) ==
    LET scale == IF digits = 1 THEN 10 ELSE IF digits = 2 THEN 100 ELSE 10000
    IN Float(RoundHalfEven(num * scale, den), scale)

\* sum(scores) as a fraction
SumOfScores(sentiments) ==
    LET RECURSIVE S(_)
        S(k) == IF k = 0 THEN Float(0, 1)
                ELSE Float(S(k - 1).num * sentiments[k].score.den
                             + sentiments[k].score.num * S(k - 1).den,
                           S(k - 1).den * sentiments[k].score.den)
    IN S(Len(sentiments))

\* round(count / total, 2): the share, not multiplied by 100
percentage_as_share(count, total) == round(count, total, 2)

\* round(count / total * 100, 2)
percentage(count, total) == round(count * 100, total, 2)

\* reduce_sentiment(mapped_data): date -> the statistics record of the day
reduce_sentiment(mapped_data) ==
    LET sentiments_by_date ==
            GroupBy([k \in 1..Len(mapped_data) |-> mapped_data[k].key],
                    [k \in 1..Len(mapped_data) |-> mapped_data[k]])
    IN [i \in 1..Len(sentiments_by_date) |->
           LET sentiments == sentiments_by_date[i][2]
               positive_count == CountLabel(sentiments, "positive")
               negative_count == CountLabel(sentiments, "negative")
               neutral_count == CountLabel(sentiments, "neutral")
               total_tweets == Len(sentiments)
           IN << sentiments_by_date[i][1],
                 [average_sentiment |->
                      round(SumOfScores(sentiments).num,
                            SumOfScores(sentiments).den * Len(sentiments), 4),
                  total_tweets |-> total_tweets,
                  sentiment_distribution |->
                      [positive |-> positive_count,
                       negative |-> negative_count,
                       neutral |-> neutral_count],
                  sentiment_percentages |->
                      [positive |-> percentage(positive_count, total_tweets),
                       negative |-> percentage(negative_count, total_tweets),
                       neutral |-> percentage(neutral_count, total_tweets)]] >>]

\* themes_by_country[key].extend(themes) over the entries: key -> the themes
\* of its entries, in their order
ThemesBy(keys, mapped_data) ==
    LET grouped == GroupBy(keys, [k \in 1..Len(mapped_data) |-> mapped_data[k].themes])
        RECURSIVE Flat(_, _)
        Flat(lists, k) == IF k = 0 THEN <<>> ELSE Flat(lists, k - 1) \o lists[k]
    IN [i \in 1..Len(grouped) |->
           << grouped[i][1], Flat(grouped[i][2], Len(grouped[i][2])) >>]

TopCountryThemes == 5
TopCityThemes == 3
SampleTweets == 3

\* _calculate_country_stats: country -> statistics; cities is list(set(...)),
\* whose order is not determined, so it is kept as a set
calculate_country_stats(tweets_by_country, themes_by_country) ==
    [i \in 1..Len(tweets_by_country) |->
        LET tweets == tweets_by_country[i][2]
        IN << tweets_by_country[i][1],
              [total_tweets |-> Len(tweets),
               top_themes |-> most_common(CounterOf(themes_by_country[i][2]),
                                          TopCountryThemes),
               cities |-> { tweets[k].location.city : k \in 1..Len(tweets) },
               sample_tweets |->
                   [k \in 1..(IF Len(tweets) < SampleTweets THEN Len(tweets)
                              ELSE SampleTweets) |-> tweets[k].tweet_text]] >>]

\* _calculate_city_stats: city -> statistics
calculate_city_stats(tweets_by_city, themes_by_city) ==
    [i \in 1..Len(tweets_by_city) |->
        LET tweets == tweets_by_city[i][2]
        IN << tweets_by_city[i][1],
              [country |-> tweets[1].location.country,
               total_tweets |-> Len(tweets),
               top_themes |-> most_common(CounterOf(themes_by_city[i][2]),
                                          TopCityThemes),
               coordinates |-> tweets[1].location.coordinates] >>]

TopGlobalThemes == 10
MinLocalCount == 2

\* the concatenation of the values of a dict of lists
AllValues(dict) ==
    LET RECURSIVE Flat(_)
        Flat(k) == IF k = 0 THEN <<>> ELSE Flat(k - 1) \o dict[k][2]
    IN Flat(Len(dict))

\* the specialties of one country, before they are sorted: the themes of
\* country_theme_counts, in the order of the Counter, that pass the test
\*   local_percentage > global_percentage * 1.5 and count >= 2
\* on the float quotients; zero is set when a division has a zero divisor
SpecialtiesOf(themes, global_theme_counts, all_mentions) ==
    LET country_theme_counts == CounterOf(themes)
        total_country_tweets == Len(themes)
        RECURSIVE S(_)
        S(i) ==
            IF i > Len(country_theme_counts) THEN [zero |-> FALSE, items |-> <<>>]
            ELSE
            LET theme == country_theme_counts[i][1]
                count == country_theme_counts[i][2]
                global == IF HasKey(global_theme_counts, theme)
                          THEN ValueAt(global_theme_counts, theme) ELSE 0
            IN IF total_country_tweets = 0 \/ all_mentions = 0 THEN [zero |-> TRUE, items |-> <<>>]
               ELSE
               LET local_percentage == float_div(count, total_country_tweets)
                   global_percentage == float_div(global, all_mentions)
                   rest == S(i + 1)
               IN IF /\ float_gt(local_percentage, float_times_3_2(global_percentage))
                     /\ count >= MinLocalCount
                  THEN IF global = 0 THEN [zero |-> TRUE, items |-> <<>>]
                       ELSE [zero |-> rest.zero,
                             items |->
                               << [theme |-> theme,
                                   local_percentage |->
                                       round(count * 100, total_country_tweets, 1),
                                   global_percentage |->
                                       round(global * 100, all_mentions, 1),
                                   over_representation |->
                                       round(count * all_mentions,
                                             total_country_tweets * global, 2)] >>
                               \o rest.items]
                  ELSE rest
    IN S(1)

\* sorted(specialties, key=lambda x: x['over_representation'], reverse=True)
SortSpecialties(specialties) ==
    LET keyed == [i \in 1..Len(specialties) |->
                     << specialties[i], specialties[i].over_representation.num >>]
        sorted == SortByCountDesc(keyed)
    IN [i \in 1..Len(sorted) |-> sorted[i][1]]

\* the loop of _analyze_themes_by_region over the countries; guarded tells
\* whether a country without theme mentions is passed over
RegionalSpecialties(themes_by_country, guarded) ==
    LET global_theme_counts == CounterOf(AllValues(themes_by_country))
        all_mentions == Len(AllValues(themes_by_country))
        RECURSIVE R(_)
        R(i) ==
            IF i > Len(themes_by_country) THEN [zero |-> FALSE, dict |-> <<>>]
            ELSE IF guarded /\ Len(themes_by_country[i][2]) = 0 THEN R(i + 1)
            ELSE LET sp == SpecialtiesOf(themes_by_country[i][2], global_theme_counts,
                                         all_mentions)
                     rest == R(i + 1)
                 IN [zero |-> sp.zero \/ rest.zero,
                     dict |-> << << themes_by_country[i][1],
                                    SortSpecialties(sp.items) >> >> \o rest.dict]
    IN [raised |-> R(1).zero,
        global_themes |-> most_common(global_theme_counts, TopGlobalThemes),
        regional_specialties |-> R(1).dict]

analyze_themes_by_region_unguarded(themes_by_country) ==
    RegionalSpecialties(themes_by_country, FALSE)

\* _analyze_themes_by_region(themes_by_country, themes_by_city): raised when
\* a division by zero ends it
analyze_themes_by_region(themes_by_country) ==
    RegionalSpecialties(themes_by_country, TRUE)

\* reduce_geographic_data(mapped_data): country_statistics, city_statistics,
\* monthly_distribution (month -> country -> count) and theme_analysis
reduce_geographic_data(mapped_data) ==
    LET countries == [k \in 1..Len(mapped_data) |-> mapped_data[k].location.country]
        cities == [k \in 1..Len(mapped_data) |-> mapped_data[k].location.city]
        monthly_geo_data ==
            GroupBy([k \in 1..Len(mapped_data) |-> mapped_data[k].month], countries)
    IN [country_statistics |->
            calculate_country_stats(GroupBy(countries, mapped_data),
                                    ThemesBy(countries, mapped_data)),
        city_statistics |->
            calculate_city_stats(GroupBy(cities, mapped_data),
                                 ThemesBy(cities, mapped_data)),
        monthly_distribution |->
            [i \in 1..Len(monthly_geo_data) |->
                << monthly_geo_data[i][1], CounterOf(monthly_geo_data[i][2]) >>],
        theme_analysis |-> analyze_themes_by_region(ThemesBy(countries, mapped_data))]

(***************************************************************************)
(* identify_significant_events (src/analyse-sentiment.py).                 *)
(***************************************************************************)
\* the code point of a character of a key: "-" or a digit
KeyCharCode(c) == IF c = "-" THEN 45 ELSE 48 + DigitVal(c)

\* a < b on str
StrLess(a, b) ==
    \E i \in 1..(Len(b)) :
        /\ \A j \in 1..(i - 1) : j <= Len(a) /\ a[j] = b[j]
        /\ \/ i = Len(a) + 1
           \/ i <= Len(a) /\ KeyCharCode(a[i]) < KeyCharCode(b[i])

\* sorted(results.keys())
sorted_keys(dict) ==
    [i \in 1..Len(dict) |->
        dict[CHOOSE k \in 1..Len(dict) :
                 Cardinality({ j \in 1..Len(dict) : StrLess(dict[j][1], dict[k][1]) })
                     = i - 1][1]]

\* the float of abs(a score rounded to four decimals)
FloatOfScore(s) == float_div(IF s.num < 0 THEN -s.num ELSE s.num, s.den)

\* threshold = 0.2
threshold == float_div(2, 10)

\* sorted(significant_changes, key=lambda x: abs(x[1]), reverse=True): stable
SortByMagnitudeDesc(changes) ==
    LET RECURSIVE Sorted(_)
        Sorted(k) ==
            IF k = 0 THEN <<>>
            ELSE LET prev == Sorted(k - 1)
                     x == changes[k]
                     \* x goes before the first change that is smaller
                     smaller == { i \in 1..Len(prev) :
                                    float_gt(x.magnitude, prev[i].magnitude) }
                     at == IF smaller = {} THEN Len(prev) + 1
                           ELSE CHOOSE i \in smaller : \A j \in smaller : i <= j
                 IN SubSeq(prev, 1, at - 1) \o <<x>> \o SubSeq(prev, at, Len(prev))
    IN Sorted(Len(changes))

\* identify_significant_events(results): whether it printed that the data
\* do not suffice, and the changes it printed, in the order printed
identify_significant_events(day_results) ==
    IF Len(day_results) < 3
    THEN [ran |-> TRUE, insufficient |-> TRUE, changes |-> <<>>]
    ELSE
    LET sorted_dates == sorted_keys(day_results)
        variations ==
            [k \in 1..(Len(sorted_dates) - 1) |->
                LET prev_score == ValueAt(day_results, sorted_dates[k]).average_sentiment
                    curr_score == ValueAt(day_results, sorted_dates[k + 1]).average_sentiment
                IN [date |-> sorted_dates[k + 1],
                    \* abs(curr_score - prev_score), on floats
                    magnitude |-> float_abs_diff(FloatOfScore(curr_score),
                                                 FloatOfScore(prev_score),
                                                 curr_score.num * prev_score.num >= 0),
                    rise |-> curr_score.num * prev_score.den
                                 > prev_score.num * curr_score.den,
                    score |-> curr_score]]
        RECURSIVE Significant(_)
        Significant(k) ==
            IF k > Len(variations) THEN <<>>
            ELSE (IF float_gt(variations[k].magnitude, threshold)
                  THEN <<variations[k]>> ELSE <<>>) \o Significant(k + 1)
    IN [ran |-> TRUE, insufficient |-> FALSE,
        changes |-> SortByMagnitudeDesc(Significant(1))]

(***************************************************************************)
(* mapper_combined (src/mapper.py): standard input.  A line is the         *)
(* sequence of its JSON tokens: the brackets and the comma of an array,    *)
(* and the values; white space between tokens is not represented, so       *)
(* line.strip() leaves a line as it is and ''.join(input_data) is the      *)
(* concatenation of the lines.                                             *)
(***************************************************************************)
Token(c) == [t |-> "tok", c |-> c]

IsToken(x, c) == x.t = "tok" /\ x.c = c

\* json.loads(tokens): the value of a text that is exactly one value, an
\* array being "[" "]" or "[" value ("," value)* "]"; JSONDecodeError
\* otherwise
json_loads(ts) ==
    LET Fail == [ok |-> FALSE, v |-> Null, next |-> 0]
        RECURSIVE Value(_), Array(_, _)
        Value(i) ==
            IF i > Len(ts) THEN Fail
            ELSE IF ts[i].t # "tok" THEN [ok |-> TRUE, v |-> ts[i], next |-> i + 1]
            ELSE IF ~IsToken(ts[i], "[") THEN Fail
            ELSE IF i + 1 <= Len(ts) /\ IsToken(ts[i + 1], "]")
                 THEN [ok |-> TRUE, v |-> List(<<>>), next |-> i + 2]
            ELSE Array(i + 1, <<>>)
        \* the elements from position i on, after the elements acc
        Array(i, acc) ==
            LET e == Value(i)
            IN IF ~e.ok \/ e.next > Len(ts) THEN Fail
               ELSE IF IsToken(ts[e.next], "]")
                    THEN [ok |-> TRUE, v |-> List(Append(acc, e.v)), next |-> e.next + 1]
               ELSE IF IsToken(ts[e.next], ",") THEN Array(e.next + 1, Append(acc, e.v))
               ELSE Fail
        r == Value(1)
    IN IF r.ok /\ r.next = Len(ts) + 1 THEN [ok |-> TRUE, v |-> r.v]
       ELSE [ok |-> FALSE, v |-> Null]

\* ''.join(input_data)
JoinLines(lines) ==
    LET RECURSIVE J(_)
        J(k) == IF k = 0 THEN <<>> ELSE J(k - 1) \o lines[k]
    IN J(Len(lines))

\* tweet_list without the parse of the single lines
mapper_tweet_list_whole(input_data) ==
    LET tweets == json_loads(JoinLines(input_data))
    IN IF tweets.ok
       THEN IF tweets.v.t = "list" THEN tweets.v.items ELSE <<tweets.v>>
       ELSE <<>>

\* tweet_list: the parsed input when all of it is one JSON text (its elements
\* when it is a list), else the values of the lines that parse
mapper_tweet_list(input_data) ==
    LET tweets == json_loads(JoinLines(input_data))
        RECURSIVE ByLine(_)
        ByLine(k) ==
            IF k > Len(input_data) THEN <<>>
            ELSE (IF input_data[k] # <<>> /\ json_loads(input_data[k]).ok
                  THEN <<json_loads(input_data[k]).v>> ELSE <<>>) \o ByLine(k + 1)
    IN IF tweets.ok
       THEN IF tweets.v.t = "list" THEN tweets.v.items ELSE <<tweets.v>>
       ELSE ByLine(1)

(***************************************************************************)
(* mapper_combined (src/mapper.py): the lines printed for one tweet.       *)
(***************************************************************************)
Tab == <<"\t">>

\* "TYPE\t{}\t{}\t1".format(month_key, item)
MapperLine(type, month_key, item) ==
    type \o Tab \o month_key \o Tab \o item \o Tab \o <<"1">>

\* a or b
Or(a, b) == IF Truthy(a) THEN a ELSE b

\* str(n) for an int
StrInt(n) == IF n < 0 THEN <<"-">> \o Decimal(-n) ELSE Decimal(n)

\* str(v) for None, a str, an int, and a float given by its repr
PyStr(v) ==
    CASE v.t = "str" -> v.s
      [] v.t = "real" -> v.s
      [] v.t = "num" -> StrInt(v.n)
      [] v.t = "null" -> <<"N","o","n","e">>

DefaultMonth == <<"2","0","2","4","-","0","1">>

\* dt.strftime('%Y-%m') (the C library writes the year without padding)
strftime_Ym(dt) == month_key_of(dt)

\* created_at as the mapper reads it
mapper_created_at(tweet) ==
    Or(Get(tweet.timestamp, Str(<<>>)), Get(tweet.created_at, Str(<<>>)))

\* the parse the mapper attempts: ISO when the string has a 'T', else the
\* Twitter format
mapper_parse(s) ==
    IF \E i \in 1..Len(s) : s[i] = "T"
    THEN fromisoformat(ReplaceZ(s))
    ELSE strptime_twitter(s)

\* month_key of the tweet: the parsed month, or the default when created_at
\* is empty or the parse raises (also for a value that is not a str)
mapper_month_key(tweet) ==
    LET created_at == mapper_created_at(tweet)
    IN IF Truthy(created_at) /\ created_at.t = "str" /\ mapper_parse(created_at.s).ok
       THEN strftime_Ym(mapper_parse(created_at.s))
       ELSE DefaultMonth

\* re.findall(r'#\w+', s): each '#' followed by its maximal run of word
\* characters, scanning from the left
findall_hashtags(s) ==
    LET RunEnd(i) ==
            \* the last index of the run of word characters starting at i
            CHOOSE e \in i..Len(s) :
                /\ \A j \in i..e : IsWordChar(s[j])
                /\ (e = Len(s) \/ ~IsWordChar(s[e + 1]))
        RECURSIVE F(_)
        F(i) == IF i >= Len(s) THEN <<>>
                ELSE IF s[i] = "#" /\ IsWordChar(s[i + 1])
                     THEN <<SubSeq(s, i, RunEnd(i + 1))>> \o F(RunEnd(i + 1) + 1)
                     ELSE F(i + 1)
    IN F(1)

\* the text of a pre-extracted tag: tag['text'].lower() for a dict with a
\* 'text' entry, str(tag).lower() otherwise
TagRaises(tag) == tag.t = "tag" /\ tag.text.t # "str"

TagText(tag) == IF tag.t = "tag" THEN Lower(tag.text.s) ELSE Lower(PyStr(tag))

\* the HASHTAG lines of a pre-extracted list, up to the first tag that raises
hashtag_lines_of_list(month_key, tags) ==
    LET RECURSIVE L(_)
        L(i) == IF i > Len(tags) \/ TagRaises(tags[i]) THEN <<>>
                ELSE <<MapperLine(<<"H","A","S","H","T","A","G">>, month_key, <<"#">> \o TagText(tags[i]))>>
                     \o L(i + 1)
    IN L(1)

\* the HASHTAG lines of the hashtags found in the text
hashtag_lines_of_text(month_key, txt) ==
    LET hashtags == findall_hashtags(Lower(txt))
    IN [i \in 1..Len(hashtags) |-> MapperLine(<<"H","A","S","H","T","A","G">>, month_key, hashtags[i])]

mapper_positive_words ==
    << <<"g","o","o","d">>, <<"g","r","e","a","t">>, <<"e","x","c","e","l","l","e","n","t">>, <<"a","m","a","z","i","n","g">>, <<"w","o","n","d","e","r","f","u","l">>, <<"f","a","n","t","a","s","t","i","c">>,
       <<"a","w","e","s","o","m","e">>, <<"p","e","r","f","e","c","t">>, <<"l","o","v","e">>, <<"b","e","s","t">>, <<"h","a","p","p","y">>, <<"n","i","c","e">> >>

mapper_negative_words ==
    << <<"b","a","d">>, <<"t","e","r","r","i","b","l","e">>, <<"a","w","f","u","l">>, <<"h","o","r","r","i","b","l","e">>, <<"w","o","r","s","t">>, <<"h","a","t","e">>,
       <<"s","a","d">>, <<"a","n","g","r","y">>, <<"d","i","s","a","p","p","o","i","n","t","e","d">>, <<"p","o","o","r">>, <<"f","a","i","l">>, <<"s","u","c","k","s">> >>

\* sum(1 for word in words if word in text_lower)
CountIn(words, text_lower) ==
    Cardinality({ i \in 1..Len(words) : Contains(text_lower, words[i]) })

\* the sentiment the mapper prints
mapper_sentiment(txt) ==
    LET positive_count == CountIn(mapper_positive_words, Lower(txt))
        negative_count == CountIn(mapper_negative_words, Lower(txt))
    IN IF positive_count > negative_count THEN <<"p","o","s","i","t","i","v","e">>
       ELSE IF negative_count > positive_count THEN <<"n","e","g","a","t","i","v","e">>
       ELSE <<"n","e","u","t","r","a","l">>

CityLimit == 50

\* s[:n]
Prefix(s, n) == IF Len(s) > n THEN SubSeq(s, 1, n) ELSE s

\* the lines of the geography mode; an exception after the LOCATION line
\* (len() of coordinates that have no length) leaves that line printed
geography_lines(month_key, tweet) ==
    LET location_info == Get(tweet.location, [t |-> "loc", city |-> Missing,
                                              coordinates |-> Missing])
        has == Truthy(location_info)
        city == IF has /\ location_info.t = "loc"
                THEN Get(location_info.city, Str(<<>>)) ELSE Str(<<>>)
        coordinates == IF has /\ location_info.t = "loc"
                       THEN Get(location_info.coordinates, List(<<>>)) ELSE List(<<>>)
        location_line ==
            IF Truthy(city)
            THEN <<MapperLine(<<"L","O","C","A","T","I","O","N">>, month_key, Prefix(strip(city.s), CityLimit))>>
            ELSE <<>>
        cs == IF Iterable(coordinates) THEN Elements(coordinates) ELSE <<>>
    IN IF has /\ location_info.t # "loc" THEN <<>>
       ELSE IF Truthy(city) /\ city.t # "str" THEN <<>>
       ELSE IF Truthy(coordinates) /\ ~Iterable(coordinates) THEN location_line
       ELSE IF Truthy(coordinates) /\ Len(cs) >= 2
            THEN location_line
                 \o <<MapperLine(<<"C","O","O","R","D","I","N","A","T","E","S">>, month_key,
                                 PyStr(cs[1]) \o <<",">> \o PyStr(cs[2]))>>
            ELSE location_line

\* the body of "for tweet in tweet_list": the lines printed for the tweet;
\* any exception is caught and the tweet skipped
mapper_lines(analysis_type, tweet) ==
    IF ~IsObject(tweet) THEN <<>>
    ELSE
    LET txt == Or(Or(Or(Get(tweet.tweet_text, Str(<<>>)), Get(tweet.text, Str(<<>>))),
                     Get(tweet.full_text, Str(<<>>))), Str(<<>>))
        month_key == mapper_month_key(tweet)
        hashtag_list == Get(tweet.hashtags, List(<<>>))
    IN IF ~Truthy(txt) THEN <<>>
       ELSE CASE analysis_type = "hashtags" ->
                    IF Truthy(hashtag_list) /\ hashtag_list.t = "list"
                    THEN hashtag_lines_of_list(month_key, hashtag_list.items)
                    ELSE IF txt.t = "str" THEN hashtag_lines_of_text(month_key, txt.s)
                    ELSE <<>>
              [] analysis_type = "sentiment" ->
                    IF txt.t = "str"
                    THEN <<MapperLine(<<"S","E","N","T","I","M","E","N","T">>, month_key, mapper_sentiment(txt.s))>>
                    ELSE <<>>
              [] analysis_type = "geography" -> geography_lines(month_key, tweet)
              [] OTHER -> <<>>


\* whether the body of "for tweet in tweet_list" raises for the tweet, which
\* the except of the body catches: .get of a tweet or a location that is not
\* a dict, .lower() of a text or a tag text that is not a str, .strip() of a
\* city that is not a str, len() of coordinates that have no length
mapper_raises(analysis_type, tweet) ==
    IF ~IsObject(tweet) THEN TRUE
    ELSE
    LET txt == Or(Or(Or(Get(tweet.tweet_text, Str(<<>>)), Get(tweet.text, Str(<<>>))),
                     Get(tweet.full_text, Str(<<>>))), Str(<<>>))
        hashtag_list == Get(tweet.hashtags, List(<<>>))
        location_info == Get(tweet.location, [t |-> "loc", city |-> Missing,
                                              coordinates |-> Missing])
        has == Truthy(location_info)
        city == IF has /\ location_info.t = "loc"
                THEN Get(location_info.city, Str(<<>>)) ELSE Str(<<>>)
        coordinates == IF has /\ location_info.t = "loc"
                       THEN Get(location_info.coordinates, List(<<>>)) ELSE List(<<>>)
    IN IF ~Truthy(txt) THEN FALSE
       ELSE CASE analysis_type = "hashtags" ->
                    IF Truthy(hashtag_list) /\ hashtag_list.t = "list"
                    THEN \E i \in 1..Len(hashtag_list.items) :
                             TagRaises(hashtag_list.items[i])
                    ELSE txt.t # "str"
              [] analysis_type = "sentiment" -> txt.t # "str"
              [] analysis_type = "geography" ->
                    \/ has /\ location_info.t # "loc"
                    \/ Truthy(city) /\ city.t # "str"
                    \/ Truthy(coordinates) /\ ~Iterable(coordinates)
              [] OTHER -> FALSE
(***************************************************************************)
(* reducer_combined (src/reducer.py).                                      *)
(***************************************************************************)
\* int(p): white space around an optional sign and decimal digits (digit
\* separators and non-ASCII digits are not among the inputs); ok = FALSE is
\* the ValueError
int_of(p) ==
    LET s == strip(p)
        signed == s # <<>> /\ s[1] \in {"+", "-"}
        digits == IF signed THEN Tail(s) ELSE s
    IN IF digits # <<>> /\ AllDigits(digits)
       THEN [ok |-> TRUE,
             n |-> IF signed /\ s[1] = "-" THEN -NumVal(digits) ELSE NumVal(digits)]
       ELSE [ok |-> FALSE, n |-> 0]

\* "{}\t{}".format(month, item)
ReducerKey(month, item) == month \o Tab \o item

\* the body of "for line in sys.stdin": data_counter after the line
reducer_step(data_counter, line) ==
    LET parts == Split(strip(line), {"\t"})
    IN IF strip(line) = <<>> THEN data_counter
       ELSE IF Len(parts) >= 4 /\ int_of(parts[4]).ok
            THEN CounterAdd(data_counter, ReducerKey(parts[2], parts[3]),
                            int_of(parts[4]).n)
            ELSE data_counter

\* key.split('\t', 1): the text before the first tab and the text after it
SplitOnce(key) ==
    LET i == CHOOSE j \in 1..Len(key) :
                 key[j] = "\t" /\ \A k \in 1..(j - 1) : key[k] # "\t"
    IN << SubSeq(key, 1, i - 1), SubSeq(key, i + 1, Len(key)) >>

\* "TYPE_RESULT\t{}\t{}\t{}".format(month, item, count)
ResultLine(type, pair) ==
    type \o Tab \o SplitOnce(pair[1])[1] \o Tab \o SplitOnce(pair[1])[2]
         \o Tab \o StrInt(pair[2])

TopGeography == 20

\* the lines printed at the end of the input
reducer_output(analysis_type, data_counter) ==
    LET Lines(type, sorted_items) ==
            [i \in 1..Len(sorted_items) |-> ResultLine(type, sorted_items[i])]
    IN CASE analysis_type = "hashtags" ->
                Lines(<<"H","A","S","H","T","A","G","_","R","E","S","U","L","T">>, most_common(data_counter, TopHashtags))
         [] analysis_type = "sentiment" ->
                Lines(<<"S","E","N","T","I","M","E","N","T","_","R","E","S","U","L","T">>, most_common_all(data_counter))
         [] analysis_type = "geography" ->
                Lines(<<"G","E","O","G","R","A","P","H","Y","_","R","E","S","U","L","T">>, most_common(data_counter, TopGeography))
         [] OTHER -> <<>>

(***************************************************************************)
(* Inputs of the analyzer.                                                 *)
(***************************************************************************)
TextAlphabet == {"s", "o", " ", "!"}

Vocabulary ==
    { <<"g","o","o","d">>, <<"b","a","d">>, <<"v","e","r","y">>,
      <<"d","a","y">>, <<"G","r","e","a","t">> }

ExampleText ==
    JoinWith(<<" ">>, << <<"t","h","i","s">>, <<"i","s">>, <<"a">>,
                         <<"g","r","e","a","t">>, <<"a","n","d">>,
                         <<"a","m","a","z","i","n","g">>, <<"d","a","y">> >>)

\* a sentiment word followed by n - 1 words without sentiment: a score of
\* 1/n or -1/n
OneIn(word, n) == JoinWith(<<" ">>, [k \in 1..n |-> IF k = 1 THEN word ELSE <<"s","o">>])

\* texts with scores at and next to the label thresholds
ThresholdTexts ==
    { OneIn(w, n) : w \in { <<"g","o","o","d">>, <<"b","a","d">> }, n \in {9, 10, 11} }
    \cup { <<"v","e","r","y"," ","g","o","o","d"," ","b","a","d"," ","s","o"," ","s","o">>, <<"v","e","r","y"," ","b","a","d"," ","g","o","o","d"," ","s","o"," ","s","o">> }

TextInputs ==
    SeqsUpTo(TextAlphabet, MaxChars)
    \cup ThresholdTexts
    \cup { JoinWith(<<" ">>, ws) : ws \in SeqsUpTo(Vocabulary, MaxWords) }
    \cup { ExampleText }

(***************************************************************************)
(* Inputs of the local map drivers: the partition files of the corpus.     *)
(***************************************************************************)
\* most records of the corpus, over all partition files
MaxRecords == 3

Tweet(ts, txt, hs, loc) ==
    [t |-> "tweet", timestamp |-> ts, tweet_text |-> txt, hashtags |-> hs,
     location |-> loc, text |-> Missing, full_text |-> Missing,
     created_at |-> Missing]

Location(city, coordinates) ==
    [t |-> "loc", city |-> city, coordinates |-> coordinates]

TsMarch == Str(<<"2","0","2","4","-","0","3","-","0","5"," ","1","0",":","0","0",":","0","0">>)
TsDecember == Str(<<"2","0","2","4","-","1","2","-","3","1"," ","2","3",":","5","9",":","5","9">>)
TsYear999 == Str(<<"0","9","9","9","-","0","3","-","0","5"," ","1","0",":","0","0",":","0","0">>)
TsIso == Str(<<"2","0","2","4","-","0","3","-","0","5","T","1","0",":","0","0",":","0","0","Z">>)
TsGarbage == Str(<<"s","o","o","n">>)

Paris == Location(Str(<<"P","a","r","i","s">>), List(<<Num(48), Num(2)>>))

\* the records of the sentiment analysis
SentimentTweets ==
    { Tweet(TsMarch, Str(<<"v","e","r","y"," ","g","o","o","d"," ","d","a","y"," ","f","o","r"," ","b","i","g"," ","d","a","t","a"," ","a","n","d"," ","m","a","c","h","i","n","e"," ","l","e","a","r","n","i","n","g"," ","t","a","l","k","s">>),
            Missing, Missing),
      Tweet(TsYear999, Str(<<"b","a","d">>), Missing, Missing),
      Tweet(TsDecember, Str(<<"!","!">>), Missing, Missing),
      Tweet(TsIso, Str(<<"g","o","o","d">>), Missing, Missing),
      Tweet(Missing, Str(<<"g","o","o","d">>), Missing, Missing),
      Tweet(TsMarch, Null, Missing, Missing),
      Str(<<"n","o","t"," ","a"," ","r","e","c","o","r","d">>) }

\* the records of the hashtag analysis
HashtagTweets ==
    { Tweet(TsMarch, Missing, List(<<Str(<<"#","A","I">>), Str(<<"a","i">>), Str(<<" ","A","I"," ">>)>>), Missing),
      Tweet(TsYear999, Missing, List(<<Str(<<"#","M","L">>)>>), Missing),
      Tweet(TsDecember, Missing, List(<<Str(<<"#","#","a","i">>), Str(<<"#">>)>>), Missing),
      Tweet(TsGarbage, Missing, List(<<Str(<<"#","A","I">>)>>), Missing),
      Tweet(TsMarch, Missing, List(<<Str(<<"#","A","I">>), Null>>), Missing),
      Tweet(TsMarch, Missing, Missing, Missing),
      Str(<<"n","o","t"," ","a"," ","r","e","c","o","r","d">>) }

\* the records of the geographic analysis
GeographicTweets ==
    { Tweet(TsMarch, Str(<<"I"," ","l","o","v","e"," ","A","I">>), List(<<Str(<<"#","C","l","o","u","d">>)>>), Paris),
      Tweet(TsGarbage, Str(<<"h","e","l","l","o">>), Missing,
            Location(Str(<<" ","l","o","n","d","o","n"," ">>), Missing)),
      Tweet(Missing, Str(<<"h","a","d","o","o","p">>), Missing,
            Location(Str(<<"A","t","l","a","n","t","i","s">>), Missing)),
      Tweet(TsMarch, Str(<<"h","e","l","l","o">>), Missing, Location(Null, Missing)),
      Tweet(Missing, Null, Missing, Paris),
      Tweet(TsMarch, Str(<<"h","e","l","l","o">>), Missing, Missing),
      Str(<<"n","o","t"," ","a"," ","r","e","c","o","r","d">>) }

Modes == {"sentiment", "hashtags", "geography"}

TweetsOf(mode) ==
    CASE mode = "sentiment" -> SentimentTweets
      [] mode = "hashtags" -> HashtagTweets
      [] mode = "geography" -> GeographicTweets

\* a partition file tweets.json: a JSON array, or a file json.load rejects
File(tweets) == [readable |-> TRUE, tweets |-> tweets]
Unreadable == [readable |-> FALSE, tweets |-> <<>>]

\* the corpora of two partition files holding the records rs
CorporaOf(rs) ==
    { << File(SubSeq(rs, 1, k)), File(SubSeq(rs, k + 1, Len(rs))) >> :
          k \in 0..Len(rs) }
    \cup { << Unreadable, File(rs) >>, << File(rs), Unreadable >> }

Corpora(mode) == UNION { CorporaOf(rs) : rs \in SeqsUpTo(TweetsOf(mode), MaxRecords) }

(***************************************************************************)
(* Inputs of the hashtag cleaning.                                         *)
(***************************************************************************)
\* longest raw hashtag enumerated character by character
MaxTag == 4

TagAlphabet == {"#", " ", "A", "i"}

RawHashtags ==
    SeqsUpTo(TagAlphabet, MaxTag) \cup { <<"#","A","I">>, <<"a","i">>, <<" ","A","I"," ">> }

(***************************************************************************)
(* Inputs of the streaming mapper: the tweets parsed from standard input.  *)
(***************************************************************************)
\* most tweets of one mapper input
MaxTweets == 3

StreamTweet(ts, created, txt, hs, loc) ==
    [t |-> "tweet", timestamp |-> ts, tweet_text |-> txt, hashtags |-> hs,
     location |-> loc, text |-> Missing, full_text |-> Missing,
     created_at |-> created]

TsTwitterMon == Str(<<"M","o","n"," ","M","a","r"," ","0","4"," ","1","0",":","0","0",":","0","0"," ","+","0","0","0","0"," ","2","0","2","4">>)
TsTwitterTue == Str(<<"T","u","e"," ","M","a","r"," ","0","5"," ","1","0",":","0","0",":","0","0"," ","+","0","0","0","0"," ","2","0","2","4">>)
TsIsoNovember == Str(<<"2","0","2","3","-","1","1","-","3","0","T","2","3",":","5","9",":","5","9","+","0","1",":","0","0">>)

MapperTweets ==
    { StreamTweet(TsMarch, Missing, Str(<<"I"," ","l","o","v","e"," ","#","A","I">>),
                  List(<<Str(<<"#","A","I">>), Str(<<"a","i">>), Str(<<" ","A","I"," ">>)>>), Paris),
      StreamTweet(TsIso, Missing, Str(<<"b","a","d"," ","#","m","l"," ","d","a","y">>), Missing, Missing),
      StreamTweet(TsIsoNovember, Missing, Str(<<"o","k">>),
                  List(<<Str(<<"M","L">>), [t |-> "tag", text |-> Str(<<"M","L">>)]>>),
                  Location(Str(<<"L","y","o","n">>), Num(5))),
      StreamTweet(Missing, TsTwitterMon, Str(<<"g","o","o","d"," ","#","B","i","g","_","D","a","t","a">>), Missing,
                  Location(Str(<<" ","O","s","l","o"," ">>), Missing)),
      StreamTweet(Missing, TsTwitterTue, Str(<<"n","i","c","e">>), List(<<Str(<<"#","A","I">>)>>), Paris),
      StreamTweet(Missing, Missing, Str(<<"#","a","i">>), Missing, Paris),
      StreamTweet(TsGarbage, Missing, Str(<<"s","a","d">>), List(<<Str(<<"b">>)>>), Missing),
      StreamTweet(TsMarch, Missing, Missing, List(<<Str(<<"#","A","I">>)>>), Paris),
      StreamTweet(TsMarch, Missing, Null, List(<<Str(<<"#","A","I">>)>>), Paris),
      StreamTweet(TsIso, Missing, Str(<<"o","k">>), List(<<Str(<<"b","i","g","\t","d","a","t","a">>)>>),
                  Location(Str(<<"N","e","w","\n","Y","o","r","k">>), Missing)),
      Str(<<"n","o","t"," ","a"," ","r","e","c","o","r","d">>) }

\* the tokens of the JSON array of the records
ArrayTokens(rs) ==
    LET RECURSIVE A(_)
        A(k) == IF k = 0 THEN <<>>
                ELSE IF k = 1 THEN <<rs[1]>>
                ELSE A(k - 1) \o <<Token(","), rs[k]>>
    IN <<Token("[")>> \o A(Len(rs)) \o <<Token("]")>>

Framings == {"array", "indented", "lines", "spaced"}

\* standard input holding the records: a JSON array on one line, a JSON
\* array with one token per line, one record per line, or one record per
\* line with an empty line after each
Framed(framing, rs) ==
    CASE framing = "array" -> <<ArrayTokens(rs)>>
      [] framing = "indented" ->
             [k \in 1..Len(ArrayTokens(rs)) |-> <<ArrayTokens(rs)[k]>>]
      [] framing = "lines" -> [k \in 1..Len(rs) |-> <<rs[k]>>]
      [] framing = "spaced" ->
             [k \in 1..(2 * Len(rs)) |-> IF k % 2 = 1 THEN <<rs[(k + 1) \div 2]>> ELSE <<>>]

\* the records of the inputs that are written in every framing
FramedTweets ==
    { StreamTweet(TsIso, Missing, Str(<<"b","a","d"," ","#","m","l"," ","d","a","y">>), Missing, Missing),
      StreamTweet(TsIsoNovember, Missing, Str(<<"o","k">>),
                  List(<<Str(<<"M","L">>), [t |-> "tag", text |-> Str(<<"M","L">>)]>>),
                  Location(Str(<<"L","y","o","n">>), Num(5))),
      StreamTweet(Missing, TsTwitterMon, Str(<<"g","o","o","d"," ","#","B","i","g","_","D","a","t","a">>), Missing,
                  Location(Str(<<" ","O","s","l","o"," ">>), Missing)),
      StreamTweet(TsMarch, Missing, Missing, List(<<Str(<<"#","A","I">>)>>), Paris) }

(***************************************************************************)
(* Inputs of the streaming reducer: the lines of standard input, without   *)
(* their line terminator.                                                  *)
(***************************************************************************)
\* longest input enumerated line by line
MaxLines == 3
\* most distinct keys of the generated inputs
MaxKeys == 21

ReducerLines ==
    { <<"S","E","N","T","I","M","E","N","T","\t","2","0","2","4","-","0","1","\t","p","o","s","i","t","i","v","e","\t","1">>,
      <<"S","E","N","T","I","M","E","N","T","\t","2","0","2","4","-","0","2","\t","p","o","s","i","t","i","v","e","\t","2">>,
      <<"H","A","S","H","T","A","G","\t","2","0","2","4","-","0","1","\t","#","a","i","\t","1">>,
      <<"L","O","C","A","T","I","O","N","\t","2","0","2","4","-","0","1","\t","P","a","r","i","s","\t","1">>,
      <<"S","E","N","T","I","M","E","N","T","\t","2","0","2","4","-","0","1","\t","p","o","s","i","t","i","v","e">>,
      <<"S","E","N","T","I","M","E","N","T","\t","2","0","2","4","-","0","1","\t","p","o","s","i","t","i","v","e","\t","x">>,
      <<"S","E","N","T","I","M","E","N","T","\t","2","0","2","4","-","0","1","\t","p","o","s","i","t","i","v","e","\t","1","\t","e","x","t","r","a">>,
      <<>> }

\* the line counting item number i of the generated inputs
KeyLine(i, count) ==
    <<"H","A","S","H","T","A","G","\t","2","0","2","4","-","0","1","\t","#","t","a","g">> \o Pad2(i) \o Tab \o StrInt(count)

\* n distinct items in rising or falling order, item h counted twice as much
KeyStream(n, h, rising) ==
    [k \in 1..n |->
        LET i == IF rising THEN k ELSE n + 1 - k
        IN KeyLine(i, IF i = h THEN 2 ELSE 1)]

ReducerInputs ==
    SeqsUpTo(ReducerLines, MaxLines)
    \cup { KeyStream(n, h, r) : n \in 1..MaxKeys, h \in 0..MaxKeys, r \in BOOLEAN }

(***************************************************************************)
(* Inputs of the local reducers: the entries collected by a map phase.     *)
(***************************************************************************)
\* most entries of an enumerated list of collected entries
MaxEntries == 5

\* the entries map_sentiment returns for records of two days
SentimentEntries ==
    { map_sentiment(Tweet(ts, Str(txt), Missing, Missing)).entries[1] :
        ts \in {TsMarch, TsDecember}, txt \in { <<"g","o","o","d">>, <<"b","a","d">>, <<"o","k">> } }

\* entries of map_hashtags for two months
HashtagEntries ==
    { [key |-> k, hashtag |-> h] :
        k \in { <<"2","0","2","4","-","0","3">>, <<"2","0","2","4","-","1","2">> }, h \in { <<"a","i">>, <<"m","l">>, <<"b","i","g","d","a","t","a">> } }

\* n entries of one month with distinct hashtags in rising or falling order,
\* followed by a second entry of hashtag number h
HashtagStream(n, h, rising) ==
    [k \in 1..(n + (IF h \in 1..n THEN 1 ELSE 0)) |->
        LET i == IF k > n THEN h ELSE IF rising THEN k ELSE n + 1 - k
        IN [key |-> <<"2","0","2","4","-","0","3">>, hashtag |-> <<"t","a","g">> \o Pad2(i)]]

\* most entries of one country with one theme in a list of geographic entries
MaxMentions == 9
\* most entries of the other country with a theme of its own
OtherMentions == 5

\* an entry as map_geographic_data returns it
GeoEntry(city, country, themes) ==
    [location |-> [city |-> city, country |-> country, coordinates |-> List(<<>>)],
     themes |-> themes, month |-> <<"2","0","2","4","-","0","3">>, tweet_text |-> <<"t">>]

Repeat(e, n) == [i \in 1..n |-> e]

Reversed(xs) == [i \in 1..Len(xs) |-> xs[Len(xs) + 1 - i]]

\* ax entries of France about ai and ay about cloud, bx entries of Japan
\* about ai and bz about bigdata, and e entries of a country without any
\* theme, in this order or in the opposite one
GeoStream(ax, ay, bx, bz, e, rev) ==
    LET xs == Repeat(GeoEntry(<<"P","a","r","i","s">>, <<"F","r","a","n","c","e">>, << <<"a","i">> >>), ax)
              \o Repeat(GeoEntry(<<"P","a","r","i","s">>, <<"F","r","a","n","c","e">>, << <<"c","l","o","u","d">> >>), ay)
              \o Repeat(GeoEntry(<<"T","o","k","y","o">>, <<"J","a","p","a","n">>, << <<"a","i">> >>), bx)
              \o Repeat(GeoEntry(<<"T","o","k","y","o">>, <<"J","a","p","a","n">>, << <<"b","i","g","d","a","t","a">> >>), bz)
              \o Repeat(GeoEntry(<<"A","t","l","a","n","t","i","s">>, <<"U","n","k","n","o","w","n">>, <<>>), e)
    IN IF rev THEN Reversed(xs) ELSE xs

\* most days of a list of sentiment entries with one entry per day
MaxDays == 3

TsJune == Str(<<"2","0","2","4","-","0","6","-","1","5"," ","0","8",":","3","0",":","0","0">>)

EventDays == { TsMarch, TsJune, TsDecember, TsYear999 }

\* texts with the scores 0.6, 0.8, 0.4 and -0.2
EventTexts ==
    { <<"g","o","o","d"," ","g","o","o","d"," ","g","o","o","d"," ","o","k"," ","o","k">>, <<"g","o","o","d"," ","g","o","o","d"," ","g","o","o","d"," ","g","o","o","d"," ","o","k">>, <<"g","o","o","d"," ","g","o","o","d"," ","o","k"," ","o","k"," ","o","k">>,
      <<"b","a","d"," ","o","k"," ","o","k"," ","o","k"," ","o","k">> }

\* the entries of map_sentiment for one record on each of n different days
EventStreams(n) ==
    { [k \in 1..n |-> map_sentiment(Tweet(days[k], Str(texts[k]), Missing, Missing)).entries[1]] :
        days \in { ds \in [1..n -> EventDays] : \A i, j \in 1..n : ds[i] = ds[j] => i = j },
        texts \in [1..n -> EventTexts] }

\* the analyses whose reducer is run on enumerated entries
ReduceModes == {"sentiment", "hashtags", "geography"}

MappedData(mode) ==
    CASE mode = "sentiment" ->
             SeqsUpTo(SentimentEntries, MaxEntries)
             \cup UNION { EventStreams(n) : n \in 2..MaxDays }
      [] mode = "hashtags" ->
             SeqsUpTo(HashtagEntries, MaxEntries)
             \cup { HashtagStream(n, h, r) :
                      n \in 1..MaxKeys, h \in 0..MaxKeys, r \in BOOLEAN }
      [] mode = "geography" ->
             { GeoStream(ax, ay, bx, bz, e, rev) :
                 ax \in 0..MaxMentions, ay \in 0..3, bx \in 0..2,
                 bz \in 0..OtherMentions, e \in 0..1, rev \in BOOLEAN }

(***************************************************************************)
(* State.                                                                  *)
(***************************************************************************)
VARIABLES
    text,       \* analyzer: the text handed to analyze_sentiment
    score,      \* analyzer: the value analyze_sentiment returned
    label,      \* analyzer: the label get_sentiment_label returned
    apc,        \* analyzer: "start", "done" after the score, "labelled"
    dmode,      \* driver: which run_*_mapreduce_local is running
    files,      \* driver: the partition files os.walk yields
    fidx,       \* driver: the file being processed
    ridx,       \* driver: the next record of that file, 0 before json.load
    all_mapped_data,  \* driver: the collected entries
    errors,     \* driver: the files whose processing printed an error
    dpc,        \* driver: "map", "reduce" or "done"
    results,    \* driver: what the run returns
    events,     \* driver: what identify_significant_events reported
    hraw,       \* hashtag cleaning: the raw hashtag
    htag,       \* hashtag cleaning: the hashtag after the cleanings so far
    hprev,      \* hashtag cleaning: the hashtag before the last cleaning
    happlied,   \* hashtag cleaning: how often it was cleaned
    manalysis,  \* mapper: ANALYSIS_TYPE
    mrecords,   \* mapper: the records standard input was written from
    minput,     \* mapper: the lines of standard input, as JSON tokens
    tweet_list, \* mapper: the tweets parsed from standard input
    mpos,       \* mapper: the next tweet of tweet_list
    mout,       \* mapper: standard output, the lines of each tweet processed
    ranalysis,  \* reducer: ANALYSIS_TYPE
    stdin,      \* reducer: the lines of standard input
    rpos,       \* reducer: the next line of stdin
    data_counter,  \* reducer: the Counter
    rout,       \* reducer: standard output
    rpc         \* reducer: "read" in the input loop, "done" after the output

avars == <<text, score, label, apc>>
dvars == <<dmode, files, fidx, ridx, all_mapped_data, errors, dpc, results, events>>
hvars == <<hraw, htag, hprev, happlied>>
mvars == <<manalysis, mrecords, minput, tweet_list, mpos, mout>>
rvars == <<ranalysis, stdin, rpos, data_counter, rout, rpc>>
vars == <<avars, dvars, hvars, mvars, rvars>>

\* identify_significant_events has not run
NoEvents == [ran |-> FALSE, insufficient |-> FALSE, changes |-> <<>>]

\* the parts of the state a specification does not use
IdleAnalyzer == text = <<>> /\ score = Float(0, 1) /\ label = "" /\ apc = "idle"
IdleDriver ==
    /\ dmode = "none" /\ files = <<>> /\ fidx = 0 /\ ridx = 0
    /\ all_mapped_data = <<>> /\ errors = <<>> /\ dpc = "idle" /\ results = <<>>
    /\ events = NoEvents

IdleCleaning == hraw = <<>> /\ htag = <<>> /\ hprev = <<>> /\ happlied = 0
IdleMapper ==
    /\ manalysis = "none" /\ mrecords = <<>> /\ minput = <<>>
    /\ tweet_list = <<>> /\ mpos = 0 /\ mout = <<>>
IdleReducer ==
    /\ ranalysis = "none" /\ stdin = <<>> /\ rpos = 0
    /\ data_counter = <<>> /\ rout = <<>> /\ rpc = "idle"

(***************************************************************************)
(* The analyzer applied to one text.                                       *)
(***************************************************************************)
InitAnalyzer ==
    /\ text \in TextInputs
    /\ score = Float(0, 1)
    /\ label = ""
    /\ apc = "start"
    /\ IdleDriver /\ IdleCleaning /\ IdleMapper /\ IdleReducer

AnalyzeSentiment ==
    /\ apc = "start"
    /\ score' = analyze_sentiment(text)
    /\ apc' = "done"
    /\ UNCHANGED <<text, label, dvars, hvars, mvars, rvars>>

\* sentiment_label = self.analyzer.get_sentiment_label(sentiment_score)
LabelScore ==
    /\ apc = "done"
    /\ ~score.raised
    /\ label' = get_sentiment_label(score)
    /\ apc' = "labelled"
    /\ UNCHANGED <<text, score, dvars, hvars, mvars, rvars>>

NextAnalyzer == AnalyzeSentiment \/ LabelScore

SpecAnalyzer == InitAnalyzer /\ [][NextAnalyzer]_vars

\* C1: for every text the score analyze_sentiment returns lies in [-1.0, 1.0]
\* (no exception leaves the call), and a text that is empty or has no word
\* token scores exactly 0.0.
C1_ScoreInRange ==
    apc \in {"done", "labelled"} =>
        /\ ~score.raised
        /\ score.den > 0
        /\ -score.den <= score.num /\ score.num <= score.den
        /\ (findall_words(text) = <<>> => score.num = 0)

\* a non-empty text without any word token has been scored
C1_Witness ==
    /\ apc \in {"done", "labelled"}
    /\ text # <<>>
    /\ findall_words(text) = <<>>
    /\ score.num = 0


\* C17: the label of a score is "positive" exactly when the score is greater
\* than 0.1, "negative" exactly when it is less than -0.1, and "neutral"
\* otherwise; a score of exactly 0.1 or -0.1 is "neutral".
C17_StrictThresholds ==
    apc = "labelled" =>
        /\ label = "positive" <=> 10 * score.num > score.den
        /\ label = "negative" <=> 10 * score.num < -score.den
        /\ label = "neutral" <=> (10 * score.num <= score.den /\ 10 * score.num >= -score.den)
        /\ label \in {"positive", "negative", "neutral"}

\* a score of exactly 0.1 (one positive word among ten) was labelled neutral
C17_Witness ==
    /\ apc = "labelled"
    /\ Len(findall_words(text)) = 10
    /\ 10 * score.num = score.den
    /\ label = "neutral"
(***************************************************************************)
(* run_sentiment_mapreduce_local, run_hashtag_mapreduce_local and          *)
(* run_geographic_mapreduce_local: the map driver over the partition files *)
(* and the call of the reducer.                                            *)
(***************************************************************************)
\* the classifier of the run
Classify(mode, tweet) ==
    CASE mode = "sentiment" -> map_sentiment(tweet)
      [] mode = "hashtags" -> map_hashtags(tweet)
      [] mode = "geography" -> map_geographic_data(tweet)

\* the reducer of the run
Reducer(mode, mapped_data) ==
    CASE mode = "sentiment" -> reduce_sentiment(mapped_data)
      [] mode = "hashtags" -> reduce_hashtags(mapped_data)
      [] mode = "geography" -> reduce_geographic_data(mapped_data)

\* the grouping key of a collected entry
EntryKey(mode, e) == IF mode = "geography" THEN e.month ELSE e.key

InitDriver ==
    /\ dmode \in Modes
    /\ files \in Corpora(dmode)
    /\ fidx = 1
    /\ ridx = 0
    /\ all_mapped_data = <<>>
    /\ errors = <<>>
    /\ dpc = "map"
    /\ results = <<>>
    /\ events = NoEvents
    /\ IdleAnalyzer /\ IdleCleaning /\ IdleMapper /\ IdleReducer

\* with open(file_path) ... tweets = json.load(f)
OpenFile ==
    /\ dpc = "map" /\ fidx <= Len(files) /\ ridx = 0
    /\ files[fidx].readable
    /\ ridx' = 1
    /\ UNCHANGED <<dmode, files, fidx, all_mapped_data, errors, dpc, results, events, avars, hvars, mvars, rvars>>

\* json.load raises: except Exception prints the error, next file
OpenFileFails ==
    /\ dpc = "map" /\ fidx <= Len(files) /\ ridx = 0
    /\ ~files[fidx].readable
    /\ errors' = Append(errors, fidx)
    /\ fidx' = fidx + 1
    /\ UNCHANGED <<dmode, files, ridx, all_mapped_data, dpc, results, events, avars, hvars, mvars, rvars>>

\* one turn of "for tweet in tweets": the classifier returns
MapTweet ==
    /\ dpc = "map" /\ fidx <= Len(files)
    /\ ridx >= 1 /\ ridx <= Len(files[fidx].tweets)
    /\ LET r == Classify(dmode, files[fidx].tweets[ridx])
       IN /\ ~r.raised
          /\ all_mapped_data' = all_mapped_data \o r.entries
    /\ ridx' = ridx + 1
    /\ UNCHANGED <<dmode, files, fidx, errors, dpc, results, events, avars, hvars, mvars, rvars>>

\* one turn of "for tweet in tweets": the classifier raises, the exception
\* leaves the loop and is caught by the except of the file
MapTweetRaises ==
    /\ dpc = "map" /\ fidx <= Len(files)
    /\ ridx >= 1 /\ ridx <= Len(files[fidx].tweets)
    /\ Classify(dmode, files[fidx].tweets[ridx]).raised
    /\ errors' = Append(errors, fidx)
    /\ fidx' = fidx + 1
    /\ ridx' = 0
    /\ UNCHANGED <<dmode, files, all_mapped_data, dpc, results, events, avars, hvars, mvars, rvars>>

\* the loop over the tweets of the file ends: print "Traite", next file
CloseFile ==
    /\ dpc = "map" /\ fidx <= Len(files)
    /\ ridx > Len(files[fidx].tweets)
    /\ fidx' = fidx + 1
    /\ ridx' = 0
    /\ UNCHANGED <<dmode, files, all_mapped_data, errors, dpc, results, events, avars, hvars, mvars, rvars>>

\* os.walk is exhausted: "Phase MAP terminee"; the geographic run returns
\* None when nothing was collected
EndMap ==
    /\ dpc = "map" /\ fidx > Len(files)
    /\ dpc' = IF dmode = "geography" /\ all_mapped_data = <<>> THEN "done" ELSE "reduce"
    /\ UNCHANGED <<dmode, files, fidx, ridx, all_mapped_data, errors, results, events, avars, hvars, mvars, rvars>>

\* results = reducer.reduce_*(all_mapped_data); return results
Reduce ==
    /\ dpc = "reduce"
    /\ results' = Reducer(dmode, all_mapped_data)
    /\ dpc' = "done"
    /\ UNCHANGED <<dmode, files, fidx, ridx, all_mapped_data, errors, events, avars, hvars, mvars, rvars>>

NextDriver ==
    \/ OpenFile
    \/ OpenFileFails
    \/ MapTweet
    \/ MapTweetRaises
    \/ CloseFile
    \/ EndMap
    \/ Reduce

SpecDriver == InitDriver /\ [][NextDriver]_vars

\* YYYY-MM: four digits, a dash and two digits
IsMonthKey(k) ==
    /\ Len(k) = 7
    /\ k[5] = "-"
    /\ AllDigits(SubSeq(k, 1, 4))
    /\ AllDigits(SubSeq(k, 6, 7))

\* YYYY-MM-DD
IsDayKey(k) ==
    /\ Len(k) = 10
    /\ IsMonthKey(SubSeq(k, 1, 7))
    /\ k[8] = "-"
    /\ AllDigits(SubSeq(k, 9, 10))

\* a year of 1 to 4 digits written without leading zero, then two-digit fields
IsDatedKey(k, fields) ==
    LET ps == Split(k, {"-"})
    IN /\ Len(ps) = fields
       /\ Len(ps[1]) \in 1..4 /\ AllDigits(ps[1]) /\ ps[1][1] # "0"
       /\ \A i \in 2..fields : Len(ps[i]) = 2 /\ AllDigits(ps[i])
       /\ NumVal(ps[2]) \in 1..12
       /\ (fields = 3 => NumVal(ps[3]) \in 1..31)
       /\ (Len(ps[1]) = 4 => IF fields = 3 THEN IsDayKey(k) ELSE IsMonthKey(k))

\* C2 as claimed: every entry handed to an aggregator has a day key
\* YYYY-MM-DD (sentiment analysis) or a month key YYYY-MM (hashtag and
\* geographic analyses); no aggregator receives a malformed key.
C2_KeysWellFormed ==
    dpc = "reduce" =>
        \A i \in 1..Len(all_mapped_data) :
            IF dmode = "sentiment"
            THEN IsDayKey(EntryKey(dmode, all_mapped_data[i]))
            ELSE IsMonthKey(EntryKey(dmode, all_mapped_data[i]))

\* C2 as amended: every entry handed to the sentiment aggregator has a key
\* <year>-MM-DD and every entry handed to the hashtag aggregator a key
\* <year>-MM, the year written without zero padding (so YYYY-MM-DD and YYYY-MM
\* for the years from 1000 on); the geographic aggregator receives such a
\* month key or the sentinel key "unknown".
C2_KeysDatedOrSentinel ==
    dpc = "reduce" =>
        \A i \in 1..Len(all_mapped_data) :
            LET k == EntryKey(dmode, all_mapped_data[i])
            IN CASE dmode = "sentiment" -> IsDatedKey(k, 3)
                 [] dmode = "hashtags" -> IsDatedKey(k, 2)
                 [] dmode = "geography" -> k = unknown \/ IsDatedKey(k, 2)

\* the geographic reducer is about to receive an entry with the sentinel key
\* next to an entry with a month key
C2_Witness ==
    /\ dpc = "reduce"
    /\ dmode = "geography"
    /\ \E i \in 1..Len(all_mapped_data) : all_mapped_data[i].month = unknown
    /\ \E i \in 1..Len(all_mapped_data) : IsMonthKey(all_mapped_data[i].month)

\* the entries of the records of a batch whose classification does not fail
EntriesOfBatch(mode, tweets) ==
    LET RECURSIVE E(_)
        E(i) == IF i > Len(tweets) THEN <<>>
                ELSE (IF Classify(mode, tweets[i]).raised THEN <<>>
                      ELSE Classify(mode, tweets[i]).entries) \o E(i + 1)
    IN E(1)

\* the entries of all batches that could be read
EntriesOfCorpus(mode, fs) ==
    LET RECURSIVE E(_)
        E(f) == IF f > Len(fs) THEN <<>>
                ELSE (IF fs[f].readable THEN EntriesOfBatch(mode, fs[f].tweets)
                      ELSE <<>>) \o E(f + 1)
    IN E(1)

\* C3 as claimed: a record whose classification fails is the only record
\* skipped; every other record of its batch, before and after it, is
\* classified and its entries are collected.
C3_OnlyFailingRecordSkipped ==
    dpc \in {"reduce", "done"} => all_mapped_data = EntriesOfCorpus(dmode, files)

(***************************************************************************)
(* The hashtag cleaning of map_hashtags applied to a raw hashtag, and      *)
(* again to its result.                                                    *)
(***************************************************************************)
InitCleaning ==
    /\ hraw \in RawHashtags
    /\ htag = hraw
    /\ hprev = hraw
    /\ happlied = 0
    /\ IdleAnalyzer /\ IdleDriver /\ IdleMapper /\ IdleReducer

CleanHashtag ==
    /\ happlied < 2
    /\ hprev' = htag
    /\ htag' = clean_hashtag(htag)
    /\ happlied' = happlied + 1
    /\ UNCHANGED <<hraw, avars, dvars, mvars, rvars>>

NextCleaning == CleanHashtag

SpecCleaning == InitCleaning /\ [][NextCleaning]_vars

\* C6 as claimed: cleaning a cleaned hashtag returns it unchanged, for every
\* raw hashtag; and "#AI", "ai" and " AI " are all cleaned to "ai".
C6_Idempotent ==
    /\ happlied = 2 => htag = hprev
    /\ (happlied >= 1 /\ hraw \in { <<"#","A","I">>, <<"a","i">>, <<" ","A","I"," ">> }) => htag = <<"a","i">>

(***************************************************************************)
(* mapper_combined over the tweets parsed from a JSON array.               *)
(***************************************************************************)
InitMapper ==
    /\ manalysis \in Modes
    /\ mrecords \in SeqsUpTo(MapperTweets, MaxTweets)
    /\ minput = Framed("array", mrecords)
    /\ tweet_list = mapper_tweet_list(minput)
    /\ mpos = 1
    /\ mout = <<>>
    /\ IdleAnalyzer /\ IdleDriver /\ IdleCleaning /\ IdleReducer

\* one turn of "for tweet in tweet_list"
MapperTweet ==
    /\ mpos >= 1 /\ mpos <= Len(tweet_list)
    /\ mout' = Append(mout, mapper_lines(manalysis, tweet_list[mpos]))
    /\ mpos' = mpos + 1
    /\ UNCHANGED <<manalysis, mrecords, minput, tweet_list, avars, dvars, hvars, rvars>>

NextMapper == MapperTweet

SpecMapper == InitMapper /\ [][NextMapper]_vars

\* the fields of a line of the text protocol
Fields(line) == Split(line, {"\t"})

\* the timestamp of a record in one of the three formats of the data model
ParseAny(s) ==
    IF strptime_ymd_hms(s).ok THEN strptime_ymd_hms(s)
    ELSE IF fromisoformat(ReplaceZ(s)).ok THEN fromisoformat(ReplaceZ(s))
    ELSE strptime_twitter(s)

\* C4 as claimed: the period key of every line the mapper prints for a record
\* is the calendar month of the record's timestamp whenever the timestamp
\* parses as YYYY-MM-DD HH:MM:SS, as ISO-8601 or in the legacy platform
\* format (for YYYY-MM-DD HH:MM:SS: the month key of the local classifier).
C4_PeriodIsMonthOfTimestamp ==
    \A i \in 1..Len(mout) :
        LET tweet == tweet_list[i]
        IN (/\ IsObject(tweet)
            /\ mapper_created_at(tweet).t = "str"
            /\ ParseAny(mapper_created_at(tweet).s).ok)
           => \A j \in 1..Len(mout[i]) :
                  Fields(mout[i][j])[2] = month_key_of(ParseAny(mapper_created_at(tweet).s))

\* C5 as claimed: for a record with pre-extracted hashtags the mapper prints
\* one line per hashtag, and two hashtags the local classifier cleans to the
\* same tag are printed with the same item.
C5_SameItemForSameTag ==
    \A i \in 1..Len(mout) :
        LET tweet == tweet_list[i]
        IN (/\ manalysis = "hashtags"
            /\ IsObject(tweet)
            /\ Truthy(Get(tweet.tweet_text, Str(<<>>)))
            /\ tweet.hashtags.t = "list"
            /\ tweet.hashtags.items # <<>>
            /\ \A j \in 1..Len(tweet.hashtags.items) : tweet.hashtags.items[j].t = "str")
           => /\ Len(mout[i]) = Len(tweet.hashtags.items)
              /\ \A j, k \in 1..Len(mout[i]) :
                     clean_hashtag(tweet.hashtags.items[j].s)
                         = clean_hashtag(tweet.hashtags.items[k].s)
                     => Fields(mout[i][j])[3] = Fields(mout[i][k])[3]

(***************************************************************************)
(* reducer_combined over the lines of standard input.                      *)
(***************************************************************************)
InitReducer ==
    /\ ranalysis \in Modes
    /\ stdin \in ReducerInputs
    /\ rpos = 1
    /\ data_counter = <<>>
    /\ rout = <<>>
    /\ rpc = "read"
    /\ IdleAnalyzer /\ IdleDriver /\ IdleCleaning /\ IdleMapper

\* one turn of "for line in sys.stdin"
ReadLine ==
    /\ rpc = "read" /\ rpos <= Len(stdin)
    /\ data_counter' = reducer_step(data_counter, stdin[rpos])
    /\ rpos' = rpos + 1
    /\ UNCHANGED <<ranalysis, stdin, rout, rpc, avars, dvars, hvars, mvars>>

\* end of input: the results of the analysis type are printed
PrintResults ==
    /\ rpc = "read" /\ rpos > Len(stdin)
    /\ rout' = reducer_output(ranalysis, data_counter)
    /\ rpc' = "done"
    /\ UNCHANGED <<ranalysis, stdin, rpos, data_counter, avars, dvars, hvars, mvars>>

NextReducer == ReadLine \/ PrintResults

SpecReducer == InitReducer /\ [][NextReducer]_vars

\* a line of the protocol: exactly 4 tab-separated fields, the last an integer
WellFormedLine(line) ==
    /\ Len(Fields(line)) = 4
    /\ int_of(Fields(line)[4]).ok

\* the sum of the count fields of the well-formed lines of the input that
\* carry the pair (period, item)
SumOfLines(lines, period, item) ==
    LET RECURSIVE S(_)
        S(k) == IF k = 0 THEN 0
                ELSE S(k - 1)
                     + (IF /\ WellFormedLine(lines[k])
                           /\ Fields(lines[k])[2] = period
                           /\ Fields(lines[k])[3] = item
                        THEN int_of(Fields(lines[k])[4]).n ELSE 0)
    IN S(Len(lines))

\* C7 as claimed: the count printed for a (period, item) pair is the sum of
\* the count fields of all well-formed input lines carrying that pair.
C7_CountIsSumOfWellFormedLines ==
    rpc = "done" =>
        \A i \in 1..Len(rout) :
            int_of(Fields(rout[i])[4]).n
                = SumOfLines(stdin, Fields(rout[i])[2], Fields(rout[i])[3])

\* C8 as claimed: a line whose field count is not 4 or whose count field is
\* not an integer is skipped; it changes no accumulated count and prints
\* nothing.
C8_MalformedLineSkipped ==
    [][ (rpc = "read" /\ rpos <= Len(stdin) /\ ~WellFormedLine(stdin[rpos]))
        => (data_counter' = data_counter /\ rout' = rout) ]_vars

\* the record types of the input lines counted under (period, item)
TypesOf(lines, period, item) ==
    { Fields(lines[k])[1] :
        k \in { n \in 1..Len(lines) :
                  /\ Len(Fields(lines[n])) >= 4
                  /\ Fields(lines[n])[2] = period
                  /\ Fields(lines[n])[3] = item } }

\* C9 as claimed: the first field of every printed line is the record type
\* of the aggregated mapper lines followed by _RESULT.
C9_ResultTypeOfRecordType ==
    rpc = "done" =>
        \A i \in 1..Len(rout) :
            \E type \in TypesOf(stdin, Fields(rout[i])[2], Fields(rout[i])[3]) :
                Fields(rout[i])[1] = type \o <<"_","R","E","S","U","L","T">>

\* the keys that were counted and are not printed
OmittedKeys ==
    { k \in 1..Len(data_counter) :
        \A i \in 1..Len(rout) :
            ReducerKey(Fields(rout[i])[2], Fields(rout[i])[3]) # data_counter[k][1] }

\* C10: the reducer prints at most 10 lines in hashtags mode, at most 20 in
\* geography mode and one line per counted key in sentiment mode; the counts
\* of the printed lines never increase, and no key left out has a count
\* greater than a printed one.
C10_TopNSorted ==
    rpc = "done" =>
        /\ ranalysis = "hashtags" => Len(rout) <= 10
        /\ ranalysis = "geography" => Len(rout) <= 20
        /\ ranalysis = "sentiment" =>
               /\ Len(rout) = Len(data_counter)
               /\ OmittedKeys = {}
        /\ \A i \in 1..(Len(rout) - 1) :
               int_of(Fields(rout[i])[4]).n >= int_of(Fields(rout[i + 1])[4]).n
        /\ \A k \in OmittedKeys : \A i \in 1..Len(rout) :
               data_counter[k][2] <= int_of(Fields(rout[i])[4]).n

\* in hashtags mode more than 10 keys were counted, 10 lines are printed, and
\* the first of them is a key that was counted after the tenth
C10_Witness ==
    /\ rpc = "done"
    /\ ranalysis = "hashtags"
    /\ Len(data_counter) > TopHashtags
    /\ Len(rout) = TopHashtags
    /\ OmittedKeys # {}
    /\ \E k \in (TopHashtags + 1)..Len(data_counter) :
           /\ data_counter[k][2] = 2
           /\ ReducerKey(Fields(rout[1])[2], Fields(rout[1])[3]) = data_counter[k][1]


(***************************************************************************)
(* The lines of the mapper's standard output.                              *)
(***************************************************************************)
\* the lines that the strings printed for the processed tweets make up on
\* standard output: print ends each string with a line feed, and a line feed
\* inside a string ends a line too
OutputLines(printed) ==
    LET RECURSIVE P(_, _)
        P(i, j) == IF i > Len(printed) THEN <<>>
                   ELSE IF j > Len(printed[i]) THEN P(i + 1, 1)
                   ELSE Split(printed[i][j], {"\n"}) \o P(i, j + 1)
    IN P(1, 1)

RecordTypes == { <<"H","A","S","H","T","A","G">>, <<"S","E","N","T","I","M","E","N","T">>, <<"L","O","C","A","T","I","O","N">>, <<"C","O","O","R","D","I","N","A","T","E","S">> }

\* C11 as claimed: every line the mapper writes has exactly 4 tab-separated
\* fields: a record type among HASHTAG, SENTIMENT, LOCATION and COORDINATES,
\* a period key, an item and the count 1, also when the hashtag or the city
\* of the record holds a tab or a line feed.
C11_FourFields ==
    \A k \in 1..Len(OutputLines(mout)) :
        LET fs == Fields(OutputLines(mout)[k])
        IN /\ Len(fs) = 4
           /\ fs[1] \in RecordTypes
           /\ fs[4] = <<"1">>

\* C12 as claimed: a record whose processing fails contributes no output
\* line at all, and the records after it are still processed.
C12_FailingRecordPrintsNothing ==
    \A i \in 1..Len(mout) :
        /\ mapper_raises(manalysis, tweet_list[i]) => mout[i] = <<>>
        /\ ~mapper_raises(manalysis, tweet_list[i])
               => mout[i] = mapper_lines(manalysis, tweet_list[i])

(***************************************************************************)
(* mapper_combined from standard input on: the input is read and parsed,   *)
(* then the tweets are processed.                                          *)
(***************************************************************************)
InitFraming ==
    /\ manalysis \in Modes
    /\ mrecords \in SeqsUpTo(FramedTweets, MaxTweets)
    /\ \E framing \in Framings : minput = Framed(framing, mrecords)
    /\ tweet_list = <<>>
    /\ mpos = 0
    /\ mout = <<>>
    /\ IdleAnalyzer /\ IdleDriver /\ IdleCleaning /\ IdleReducer

\* standard input is read to its end and parsed into tweet_list
ReadStdin ==
    /\ mpos = 0
    /\ tweet_list' = mapper_tweet_list(minput)
    /\ mpos' = 1
    /\ UNCHANGED <<manalysis, mrecords, minput, mout, avars, dvars, hvars, rvars>>

NextFraming == ReadStdin \/ MapperTweet

SpecFraming == InitFraming /\ [][NextFraming]_vars

\* C13: whether the records are given as one JSON array or one per line,
\* the mapper processes exactly these records in their order, so its
\* output is the same lines in the same order; the lines are parsed one by
\* one exactly when the input as a whole is not one JSON text.
C13_FramingIndependent ==
    /\ mpos >= 1 => tweet_list = mrecords
    /\ (mpos >= 1 /\ mpos > Len(tweet_list))
           => mout = [i \in 1..Len(mrecords) |-> mapper_lines(manalysis, mrecords[i])]

\* two records given one per line, which do not parse as a whole, were
\* parsed line by line and processed, and lines were printed for both
C13_Witness ==
    /\ Len(minput) = 2 /\ Len(mrecords) = 2
    /\ ~json_loads(JoinLines(minput)).ok
    /\ mpos = 3
    /\ mout[1] # <<>> /\ mout[2] # <<>>

(***************************************************************************)
(* The classifiers as the map drivers call them.                           *)
(***************************************************************************)
\* the driver is about to classify a record of the analysis
Classifying(mode) ==
    /\ dmode = mode /\ dpc = "map" /\ fidx <= Len(files)
    /\ ridx >= 1 /\ ridx <= Len(files[fidx].tweets)

\* the record the driver is about to classify
CurrentTweet == files[fidx].tweets[ridx]

\* the entries the step has collected
Collected(before, after) == SubSeq(after, Len(before) + 1, Len(after))

\* the record has a timestamp that parses and a text
HasDayAndText(tweet) ==
    /\ tweet.timestamp.t = "str" /\ tweet.timestamp.s # <<>>
    /\ strptime_ymd_hms(tweet.timestamp.s).ok
    /\ tweet.tweet_text.t = "str" /\ tweet.tweet_text.s # <<>>

\* the fields of the key are the numbers of the date
KeyOfDate(k, dt) ==
    LET ps == Split(k, {"-"})
    IN /\ Len(ps) = 3
       /\ NumVal(ps[1]) = dt.year /\ NumVal(ps[2]) = dt.month /\ NumVal(ps[3]) = dt.day

\* the entry carries the score of the text, the label of that score and
\* the preview of the text
ScoredEntry(e, txt) ==
    /\ e.score = analyze_sentiment(txt)
    /\ e.label = (IF 10 * e.score.num > e.score.den THEN "positive"
                  ELSE IF 10 * e.score.num < -e.score.den THEN "negative"
                  ELSE "neutral")
    /\ e.text_preview = (IF Len(txt) > 50 THEN SubSeq(txt, 1, 50) \o <<".",".",".">> ELSE txt)

EntriesOfHashtags(month_key, hs, i) ==
    LET RECURSIVE E(_)
        E(k) == IF k > Len(hs) THEN <<>>
                ELSE (IF hs[k].t = "str" /\ clean_hashtag(hs[k].s) # <<>>
                      THEN << [key |-> month_key, hashtag |-> clean_hashtag(hs[k].s)] >>
                      ELSE <<>>) \o E(k + 1)
    IN E(i)

\* C18 as claimed: for a record with a timestamp that parses and a non-empty
\* hashtag list, map_hashtags returns one entry per hashtag whose cleaned
\* form is not empty, in the order of the hashtags and all with the month
\* key of the record, each hashtag handled independently of the others; it
\* returns no entry when the timestamp or the hashtags are missing or empty.
C18_EntryPerHashtag ==
    [][ (Classifying("hashtags") /\ IsObject(CurrentTweet))
        => LET new == Collected(all_mapped_data, all_mapped_data')
               timestamp == CurrentTweet.timestamp
               hashtags == CurrentTweet.hashtags
           IN /\ errors' = errors
              /\ (~Truthy(timestamp) \/ ~Truthy(hashtags)) => new = <<>>
              /\ (/\ timestamp.t = "str" /\ strptime_ymd_hms(timestamp.s).ok
                  /\ hashtags.t = "list" /\ hashtags.items # <<>>)
                 => new = EntriesOfHashtags(month_key_of(strptime_ymd_hms(timestamp.s)),
                                            hashtags.items, 1) ]_vars

\* the record has no location, or its location has no city or a city that
\* is empty after trimming
NoCity(tweet) ==
    \/ tweet.location.t \in {"missing", "null"}
    \/ tweet.location.t # "loc"
    \/ tweet.location.city.t \in {"missing", "null"}
    \/ tweet.location.city.t = "str" /\ strip(tweet.location.city.s) = <<>>

\* C20 as claimed: map_geographic_data returns nothing exactly when the
\* record has no location or its location.city is absent or empty after
\* trimming; otherwise it returns a payload whose city is the title-cased
\* trimmed lowercase city and whose country is the entry of the table for
\* that lowercase city, or "Unknown" when the table has none.
C20_PayloadOrNothing ==
    [][ (Classifying("geography") /\ IsObject(CurrentTweet))
        => LET new == Collected(all_mapped_data, all_mapped_data')
           IN /\ errors' = errors
              /\ IF NoCity(CurrentTweet) THEN new = <<>>
                 ELSE LET city == strip(Lower(CurrentTweet.location.city.s))
                      IN /\ Len(new) = 1
                         /\ new[1].location.city = title(city)
                         /\ new[1].location.country
                                = (IF \E i \in 1..Len(city_to_country) :
                                          city_to_country[i][1] = city
                                   THEN country_of(city) ELSE <<"U","n","k","n","o","w","n">>) ]_vars

(***************************************************************************)
(* The reduce phase of a run over the entries a map phase has collected.   *)
(***************************************************************************)
InitReduce ==
    /\ dmode \in ReduceModes
    /\ all_mapped_data \in MappedData(dmode)
    /\ files = <<>>
    /\ fidx = 1
    /\ ridx = 0
    /\ errors = <<>>
    /\ dpc = "reduce"
    /\ results = <<>>
    /\ events = NoEvents
    /\ IdleAnalyzer /\ IdleCleaning /\ IdleMapper /\ IdleReducer

\* __main__ of analyse-sentiment.py after the run: if results, the
\* detector is called on them
IdentifyEvents ==
    /\ dmode = "sentiment" /\ dpc = "done" /\ results # <<>> /\ ~events.ran
    /\ events' = identify_significant_events(results)
    /\ UNCHANGED <<dmode, files, fidx, ridx, all_mapped_data, errors, dpc, results,
                   avars, hvars, mvars, rvars>>

NextReduce ==
    \/ Reduce
    \/ IdentifyEvents

SpecReduce == InitReduce /\ [][NextReduce]_vars

\* the keys of a dict result
KeysOf(result) == { result[i][1] : i \in 1..Len(result) }

\* the number of collected entries with the key
EntriesWithKey(k) ==
    Cardinality({ i \in 1..Len(all_mapped_data) : all_mapped_data[i].key = k })

\* C15: the result of reduce_sentiment has exactly one statistics record for
\* each day key occurring in the entries and no other key, and the
\* total_tweets of the record is the number of entries with that key.
C15_OneRecordPerDay ==
    (dmode = "sentiment" /\ dpc = "done") =>
        /\ KeysOf(results) = { all_mapped_data[i].key : i \in 1..Len(all_mapped_data) }
        /\ \A i, j \in 1..Len(results) : results[i][1] = results[j][1] => i = j
        /\ \A i \in 1..Len(results) :
               results[i][2].total_tweets = EntriesWithKey(results[i][1])

\* entries of two days, one of them with several entries that are not
\* adjacent in the list, were reduced to two records
C15_Witness ==
    /\ dmode = "sentiment" /\ dpc = "done"
    /\ Len(all_mapped_data) >= 4
    /\ all_mapped_data[1].key = all_mapped_data[3].key
    /\ all_mapped_data[1].key = all_mapped_data[4].key
    /\ all_mapped_data[1].key # all_mapped_data[2].key
    /\ Len(results) = 2
    /\ results[1][2].total_tweets = 3

\* C16: for every day of the result the positive, negative and neutral
\* percentages sum to a value within 0.1 of 100; the percentages are in
\* hundredths, so the sum is within 10 hundredths of 10000.
C16_PercentagesSumTo100 ==
    (dmode = "sentiment" /\ dpc = "done") =>
        \A i \in 1..Len(results) :
            LET p == results[i][2].sentiment_percentages
                sum == p.positive.num + p.negative.num + p.neutral.num
            IN /\ p.positive.den = 100 /\ p.negative.den = 100 /\ p.neutral.den = 100
               /\ sum >= 10000 - 10 /\ sum <= 10000 + 10

\* a day with one positive, one negative and one neutral entry: three times
\* 33.33, which sum to 99.99
C16_Witness ==
    /\ dmode = "sentiment" /\ dpc = "done"
    /\ \E i \in 1..Len(results) :
           LET p == results[i][2].sentiment_percentages
           IN /\ p.positive.num = 3333 /\ p.negative.num = 3333 /\ p.neutral.num = 3333
              /\ results[i][2].total_tweets = 3

\* the positions of the collected entries of the month with the hashtag
PositionsOf(month, hashtag) ==
    { k \in 1..Len(all_mapped_data) :
        all_mapped_data[k].key = month /\ all_mapped_data[k].hashtag = hashtag }

\* the position of the first of them
FirstPosition(month, hashtag) ==
    CHOOSE k \in PositionsOf(month, hashtag) : \A n \in PositionsOf(month, hashtag) : k <= n

\* the hashtags of the month that the result leaves out
OmittedHashtags(month, pairs) ==
    { all_mapped_data[k].hashtag :
        k \in { n \in 1..Len(all_mapped_data) : all_mapped_data[n].key = month } }
    \ { pairs[i][1] : i \in 1..Len(pairs) }

\* C19: for every month reduce_hashtags returns at most 10 (hashtag, count)
\* pairs, each count the number of entries of the month with the hashtag,
\* in falling order of count with equal counts in first-encountered order,
\* and no hashtag left out has a higher count than one retained; hashtags
\* ai, ai, ml of 2024-03 give (ai, 2) before (ml, 1).
C19_TopTenPerMonth ==
    (dmode = "hashtags" /\ dpc = "done") =>
        /\ KeysOf(results) = { all_mapped_data[i].key : i \in 1..Len(all_mapped_data) }
        /\ \A m \in 1..Len(results) :
               LET month == results[m][1]
                   pairs == results[m][2]
               IN /\ Len(pairs) <= 10
                  /\ \A i \in 1..Len(pairs) :
                         pairs[i][2] = Cardinality(PositionsOf(month, pairs[i][1]))
                  /\ \A i, j \in 1..Len(pairs) :
                         i < j => \/ pairs[i][2] > pairs[j][2]
                                  \/ /\ pairs[i][2] = pairs[j][2]
                                     /\ FirstPosition(month, pairs[i][1])
                                            < FirstPosition(month, pairs[j][1])
                  /\ \A h \in OmittedHashtags(month, pairs) : \A i \in 1..Len(pairs) :
                         \/ Cardinality(PositionsOf(month, h)) < pairs[i][2]
                         \/ /\ Cardinality(PositionsOf(month, h)) = pairs[i][2]
                            /\ FirstPosition(month, pairs[i][1]) < FirstPosition(month, h)
        /\ all_mapped_data = << [key |-> <<"2","0","2","4","-","0","3">>, hashtag |-> <<"a","i">>],
                                [key |-> <<"2","0","2","4","-","0","3">>, hashtag |-> <<"a","i">>],
                                [key |-> <<"2","0","2","4","-","0","3">>, hashtag |-> <<"m","l">>] >>
               => results = << << <<"2","0","2","4","-","0","3">>, << << <<"a","i">>, 2 >>, << <<"m","l">>, 1 >> >> >> >>

\* more than 10 hashtags of one month, one of the later ones twice: 10 pairs
\* are returned, that hashtag first and then the first nine of the others
C19_Witness ==
    /\ dmode = "hashtags" /\ dpc = "done"
    /\ Len(results) = 1
    /\ Len(results[1][2]) = 10
    /\ Cardinality(OmittedHashtags(results[1][1], results[1][2])) >= 2
    /\ results[1][2][1] = << <<"t","a","g","1","2">>, 2 >>
    /\ results[1][2][2] = << <<"t","a","g","0","1">>, 1 >>
    /\ results[1][2][10] = << <<"t","a","g","0","9">>, 1 >>

\* the day of a key <year>-MM-DD as a number that grows with the calendar
DayNumber(key) ==
    LET ps == Split(key, {"-"})
    IN NumVal(ps[1]) * 10000 + NumVal(ps[2]) * 100 + NumVal(ps[3])

\* the day of the result that precedes the day in the calendar, as the set
\* of its keys: empty for the first day
PrecedingDay(key) ==
    { p \in KeysOf(results) :
        /\ DayNumber(p) < DayNumber(key)
        /\ \A q \in KeysOf(results) :
              DayNumber(q) < DayNumber(key) => DayNumber(q) <= DayNumber(p) }

\* abs(average of the day - average of the preceding day) in ten-thousandths
ScoreChange(key) ==
    LET p == CHOOSE q \in PrecedingDay(key) : TRUE
        a == ValueAt(results, key).average_sentiment.num
        b == ValueAt(results, p).average_sentiment.num
    IN IF a > b THEN a - b ELSE b - a

\* C25: on a result with at least 3 days the detector compares each day
\* with the day that precedes it in the calendar and reports the day
\* exactly when the absolute difference of the scores is strictly greater
\* than 0.2, the reported changes listed by decreasing absolute difference;
\* with fewer than 3 days it reports that the data do not suffice and flags
\* nothing.
C25_SignificantIffAboveThreshold ==
    (dmode = "sentiment" /\ events.ran)
    => IF Len(results) < 3
       THEN events.insufficient /\ events.changes = <<>>
       ELSE /\ ~events.insufficient
            /\ \A key \in KeysOf(results) :
                  (\E i \in 1..Len(events.changes) : events.changes[i].date = key)
                  <=> (PrecedingDay(key) # {} /\ ScoreChange(key) > 2000)
            /\ \A i \in 1..(Len(events.changes) - 1) :
                  ScoreChange(events.changes[i].date)
                      >= ScoreChange(events.changes[i + 1].date)
(***************************************************************************)
(* The geographic analysis (src/distribution-geo.py).                      *)
(***************************************************************************)
\* the record has no timestamp, or one that strptime does not parse
NoMonth(tweet) ==
    \/ tweet.timestamp.t # "str"
    \/ ~strptime_ymd_hms(tweet.timestamp.s).ok

\* the number of positions of xs that hold x
Occurrences(xs, x) == Cardinality({ k \in 1..Len(xs) : xs[k] = x })

\* the statistics count every collected entry under its country, its city
\* and its month
EntriesCounted ==
    LET countries == [k \in 1..Len(all_mapped_data) |->
                          all_mapped_data[k].location.country]
        cities == [k \in 1..Len(all_mapped_data) |-> all_mapped_data[k].location.city]
        months == [k \in 1..Len(all_mapped_data) |->
                       << all_mapped_data[k].month, countries[k] >>]
    IN \A k \in 1..Len(all_mapped_data) :
          /\ HasKey(results.country_statistics, countries[k])
          /\ ValueAt(results.country_statistics, countries[k]).total_tweets
                 = Occurrences(countries, countries[k])
          /\ HasKey(results.city_statistics, cities[k])
          /\ ValueAt(results.city_statistics, cities[k]).total_tweets
                 = Occurrences(cities, cities[k])
          /\ HasKey(results.monthly_distribution, months[k][1])
          /\ HasKey(ValueAt(results.monthly_distribution, months[k][1]), countries[k])
          /\ ValueAt(ValueAt(results.monthly_distribution, months[k][1]), countries[k])
                 = Occurrences(months, months[k])

\* C21: a record with a valid city but a missing or unparseable timestamp is
\* not dropped by the geographic classifier: it is mapped with the month
\* "unknown" and counted in the country, city and monthly statistics,
\* whereas the sentiment and the hashtag classifiers return nothing for the
\* same record.
C21_UnknownMonthCounted ==
    /\ [][ (/\ Classifying("geography") /\ IsObject(CurrentTweet)
            /\ ~NoCity(CurrentTweet) /\ NoMonth(CurrentTweet))
           => LET new == Collected(all_mapped_data, all_mapped_data')
              IN /\ errors' = errors
                 /\ Len(new) = 1 /\ new[1].month = unknown
                 /\ map_sentiment(CurrentTweet) = Ret(<<>>)
                 /\ map_hashtags(CurrentTweet) = Ret(<<>>) ]_vars
    /\ []((dmode = "geography" /\ dpc = "done" /\ all_mapped_data # <<>>)
              => EntriesCounted)

\* the lowercased text of the record joined by a space with its lowercased
\* hashtags without "#", themselves joined by spaces
ContentOf(tweet) ==
    LET hs == Elements(Get(tweet.hashtags, List(<<>>)))
    IN Lower(Get(tweet.tweet_text, Str(<<>>)).s) \o <<" ">>
       \o JoinWith(<<" ">>, [i \in 1..Len(hs) |-> RemoveHash(Lower(hs[i].s))])

\* a keyword of the theme occurs in the content
ThemeMatches(i, content) ==
    \E k \in 1..Len(tech_themes[i][2]) : Contains(content, tech_themes[i][2][k])

\* C22: extract_themes always returns a non-empty theme list: a theme is
\* listed exactly when one of its keywords is a substring of the lowercased
\* text joined with the de-hashed lowercased hashtags, and "general" is
\* listed exactly when no theme matched, and is then the only element.
C22_ThemesNeverEmpty ==
    [][ (Classifying("geography") /\ IsObject(CurrentTweet) /\ ~NoCity(CurrentTweet))
        => LET new == Collected(all_mapped_data, all_mapped_data')
           IN /\ errors' = errors
              /\ Len(new) = 1
              /\ new[1].themes # <<>>
              /\ LET themes == { new[1].themes[k] : k \in 1..Len(new[1].themes) }
                     content == ContentOf(CurrentTweet)
                 IN /\ \A i \in 1..Len(tech_themes) :
                           tech_themes[i][1] \in themes <=> ThemeMatches(i, content)
                    /\ general \in themes
                           <=> ~\E i \in 1..Len(tech_themes) : ThemeMatches(i, content)
                    /\ general \in themes => new[1].themes = <<general>> ]_vars

\* the number of mentions of the theme among the collected entries of the
\* countries
Mentions(countries, theme) ==
    Cardinality({ p \in (1..Len(all_mapped_data)) \X (1..8) :
                    /\ all_mapped_data[p[1]].location.country \in countries
                    /\ p[2] <= Len(all_mapped_data[p[1]].themes)
                    /\ all_mapped_data[p[1]].themes[p[2]] = theme })

CollectedCountries ==
    { all_mapped_data[k].location.country : k \in 1..Len(all_mapped_data) }

CollectedThemes ==
    UNION { { all_mapped_data[k].themes[j] : j \in 1..Len(all_mapped_data[k].themes) } :
              k \in 1..Len(all_mapped_data) }

\* the theme mentions of the countries
AllMentions(countries) ==
    Cardinality({ p \in (1..Len(all_mapped_data)) \X (1..8) :
                    /\ all_mapped_data[p[1]].location.country \in countries
                    /\ p[2] <= Len(all_mapped_data[p[1]].themes) })

\* the local share of the theme in the country is more than 1.5 times its
\* global share, on the exact quotients:
\*   local / total > 3/2 * (global / all)
OverRepresented(country, theme) ==
    2 * Mentions({country}, theme) * AllMentions(CollectedCountries)
        > 3 * Mentions(CollectedCountries, theme) * AllMentions({country})

\* the specialties the analysis lists for the country
ListedSpecialties(country) ==
    IF HasKey(results.theme_analysis.regional_specialties, country)
    THEN ValueAt(results.theme_analysis.regional_specialties, country)
    ELSE <<>>

\* C23: for every country a theme is listed as a regional specialty exactly
\* when its local share (local count / theme mentions of the country) is
\* strictly greater than 1.5 times its global share (global count / all
\* theme mentions) and its local count is at least 2, and the specialties
\* of a country are listed by decreasing ratio local share / global share.
C23_SpecialtyIffOverRepresented ==
    (dmode = "geography" /\ dpc = "done" /\ all_mapped_data # <<>>)
    => \A country \in CollectedCountries :
          LET listed == ListedSpecialties(country)
          IN /\ \A theme \in CollectedThemes :
                   (\E i \in 1..Len(listed) : listed[i].theme = theme)
                   <=> (/\ OverRepresented(country, theme)
                        /\ Mentions({country}, theme) >= 2)
             /\ \A i \in 1..(Len(listed) - 1) :
                   \* ratio of i >= ratio of i + 1, the totals being the same
                   Mentions({country}, listed[i].theme)
                       * Mentions(CollectedCountries, listed[i + 1].theme)
                   >= Mentions({country}, listed[i + 1].theme)
                       * Mentions(CollectedCountries, listed[i].theme)

\* C24: regional specialty detection never divides by zero, whatever the
\* mapped entries: when a local share or a ratio is computed the theme
\* mentions of the country, all theme mentions and the global count of the
\* theme are not zero; a country without theme mentions is passed over.
C24_NoDivisionByZero ==
    (dmode = "geography" /\ dpc = "done" /\ all_mapped_data # <<>>)
    => /\ ~results.theme_analysis.raised
       /\ \A country \in CollectedCountries :
             IF AllMentions({country}) = 0
             THEN ~HasKey(results.theme_analysis.regional_specialties, country)
             ELSE /\ HasKey(results.theme_analysis.regional_specialties, country)
                  /\ AllMentions(CollectedCountries) > 0
                  /\ \A theme \in CollectedThemes :
                        Mentions({country}, theme) > 0
                            => Mentions(CollectedCountries, theme) > 0

\* the analysis has passed over a country without theme mentions and has
\* listed two specialties of another country
C24_Witness ==
    /\ dmode = "geography" /\ dpc = "done"
    /\ ~results.theme_analysis.raised
    /\ \E country \in CollectedCountries : AllMentions({country}) = 0
    /\ \E country \in CollectedCountries : Len(ListedSpecialties(country)) = 2

(***************************************************************************)
(* The phases of a run.                                                    *)
(***************************************************************************)
\* the driver has handed record i of file f to the classifier: no record
\* before it in the file has raised
WasClassified(f, i) ==
    \A j \in 1..(i - 1) : ~Classify(dmode, files[f].tweets[j]).raised

\* the reduce phase has begun
ReduceBegun == dpc = "reduce" \/ (dpc = "done" /\ results # <<>>)

Weighted(tokens, word_list, intensified) ==
    { i \in 1..Len(tokens) :
        /\ tokens[i] \in word_list
        /\ intensified <=> (i > 1 /\ tokens[i - 1] \in intensifiers) }

\* twice the sum of the weights of the tokens in the word list: 1.5 for a
\* token just after an intensifier, 1.0 for any other, the first included
TwiceWeights(tokens, word_list) ==
    3 * Cardinality(Weighted(tokens, word_list, TRUE))
        + 2 * Cardinality(Weighted(tokens, word_list, FALSE))

\* C26: a sentiment word weighs 1.5 exactly when the token just before it is
\* an intensifier and 1.0 otherwise (an intensifier two or more tokens
\* earlier has no effect, the first token weighs 1.0); the score is (sum of
\* the positive weights - sum of the negative weights) / number of tokens,
\* and "this is a great and amazing day" scores 2/7 and is labelled positive.
C26_AdjacentIntensifierOnly ==
    LET tokens == findall_words(Lower(text))
    IN /\ (apc \in {"done", "labelled"} /\ tokens # <<>>)
          => /\ ~score.raised
             /\ score.num * 2 * Len(tokens)
                    = (TwiceWeights(tokens, positive_words)
                         - TwiceWeights(tokens, negative_words)) * score.den
       /\ (apc \in {"done", "labelled"} /\ text = ExampleText)
          => 7 * score.num = 2 * score.den
       /\ (apc = "labelled" /\ text = ExampleText) => label = "positive"

\* "very day good" has been scored 1/3: the intensifier two tokens before
\* the positive word has left its weight at 1.0
C26_Witness ==
    /\ apc = "labelled"
    /\ findall_words(Lower(text)) = << <<"v","e","r","y">>, <<"d","a","y">>, <<"g","o","o","d">> >>
    /\ 3 * score.num = score.den
    /\ label = "positive"

(***************************************************************************)
(* The streaming reducer and the order in which its lines arrive.          *)
(***************************************************************************)
\* longest input of which every permutation is taken
MaxPermuted == 4

\* data_counter after the input loop over the lines
CounterOfLines(lines) ==
    LET RECURSIVE C(_)
        C(k) == IF k = 0 THEN <<>> ELSE reducer_step(C(k - 1), lines[k])
    IN C(Len(lines))

\* the same lines in other orders: every permutation of a short input; of a
\* long one the reverse, the exchange of the first two lines and the
\* rotation by one line
Rearrangements(lines) ==
    LET n == Len(lines)
    IN IF n <= MaxPermuted
       THEN { [i \in 1..n |-> lines[p[i]]] :
                p \in { f \in [1..n -> 1..n] : \A i, j \in 1..n : f[i] = f[j] => i = j } }
       ELSE { [i \in 1..n |-> lines[n + 1 - i]],
              [i \in 1..n |-> lines[IF i = 1 THEN 2 ELSE IF i = 2 THEN 1 ELSE i]],
              [i \in 1..n |-> lines[(i % n) + 1]] }

\* the set of the lines of an output
LineSet(out) == { out[i] : i \in 1..Len(out) }

\* what the reducer prints for the lines in the given order
OutputOf(analysis_type, lines) == reducer_output(analysis_type, CounterOfLines(lines))

\* C28: in sentiment mode the result of the reducer does not depend on how
\* the output lines of several mappers are interleaved: for every
\* permutation of the same lines the set of (period, item, count) result
\* lines is the same.
C28_SentimentOrderIndependent ==
    (rpc = "done" /\ ranalysis = "sentiment")
    => \A lines \in Rearrangements(stdin) :
          LineSet(OutputOf("sentiment", lines)) = LineSet(rout)

\* the reducer has printed two result lines in sentiment mode, and the same
\* input lines in another order give them in another order
C28_Witness ==
    /\ rpc = "done" /\ ranalysis = "sentiment"
    /\ Cardinality(LineSet(rout)) >= 2
    /\ \E lines \in Rearrangements(stdin) : OutputOf("sentiment", lines) # rout

\* C29: in hashtags and geography mode the truncated result of the reducer
\* does not depend on the order in which the mapper lines arrive: for every
\* interleaving of the same lines the set of the top-10 (top-20) result
\* lines is the same, also when keys tie on the count at the cut.
C29_TruncationOrderIndependent ==
    (rpc = "done" /\ ranalysis \in {"hashtags", "geography"})
    => \A lines \in Rearrangements(stdin) :
          LineSet(OutputOf(ranalysis, lines)) = LineSet(rout)

(***************************************************************************)
(* The streaming mapper and the local classifiers on a record without      *)
(* text.                                                                   *)
(***************************************************************************)
\* none of tweet_text, text and full_text holds a text (mapper.py:45-46)
NoText(tweet) ==
    /\ ~Truthy(tweet.tweet_text)
    /\ ~Truthy(tweet.text)
    /\ ~Truthy(tweet.full_text)

\* the record carries a timestamp of the local format and a list of
\* hashtags of which one is not empty once cleaned
CarriesHashtags(tweet) ==
    /\ tweet.timestamp.t = "str" /\ strptime_ymd_hms(tweet.timestamp.s).ok
    /\ tweet.hashtags.t = "list"
    /\ \A i \in 1..Len(tweet.hashtags.items) : tweet.hashtags.items[i].t = "str"
    /\ \E i \in 1..Len(tweet.hashtags.items) :
           clean_hashtag(tweet.hashtags.items[i].s) # <<>>

\* the classifier returns something for the record
Accepts(result) == ~result.raised /\ result.entries # <<>>

\* the mapper has handled the i-th record, which is an object without text
TextlessHandled(i) ==
    /\ i \in 1..Len(mout)
    /\ IsObject(tweet_list[i])
    /\ NoText(tweet_list[i])

\* C30: in every analysis mode the streaming mapper prints no line for a
\* record of which tweet_text, text and full_text are all missing or
\* empty, whatever hashtags and location it carries, while map_hashtags
\* returns entries for the record if it carries hashtags and
\* map_geographic_data returns a payload for it if it carries a city.
C30_TextlessDroppedByMapperOnly ==
    \A i \in 1..Len(mout) :
        TextlessHandled(i) =>
            /\ mout[i] = <<>>
            /\ CarriesHashtags(tweet_list[i]) => Accepts(map_hashtags(tweet_list[i]))
            /\ ~NoCity(tweet_list[i]) => Accepts(map_geographic_data(tweet_list[i]))

====
